---- MODULE Spec2Model ----
(***************************************************************************)
(* Model of runtime/vm/compiler/frontend/kernel_to_il.h: the graph         *)
(* fragment algebra (class Fragment) and the region trackers of the        *)
(* flow graph builder (SwitchBlock, TryCatchBlock, TryFinallyBlock,        *)
(* BreakableBlock, CatchBlock).                                            *)
(*                                                                         *)
(* Pointers are natural numbers, NULL is 0.  Instructions are the numbers  *)
(* 1..MaxInstr, handed out in order by the instruction catalogue.          *)
(***************************************************************************)
EXTENDS Integers, Sequences, FiniteSets, TLC

\* ------------------------------------------------------------------ bounds
\* Number of instruction objects the catalogue hands out in one run: two for
\* each of the two operand fragments, the rest for new instructions.
MaxInstr == 5

\* Number of fragment operations in one run.
MaxSteps == 3

\* Number of tracker operations in one run; it also bounds the nesting of
\* live trackers, the try indices, the block ids and the context depth.
MaxOps == 5

\* CatchClauseNode::kInvalidTryIndex, also the default try_handler_index.
kInvalidTryIndex == -1

NULL == 0

\* The Fragment typed local variables of the translator that the model follows.
Slots == {"a", "b"}

VARIABLES
  frags,       \* Slots -> Fragment: the operand fragments a and b
  acc,         \* the fragment under construction (the Fragment a translation extends)
  graph,       \* set of <<from, to>> edges made by Instruction::LinkTo
  steps,       \* number of operations done so far
  instrs,      \* number of instructions created so far (they are 1..instrs)
  last,        \* history: the last fragment operation, its operands and result
  fatal,       \* TRUE once a fatal assertion has failed
  builder,     \* the fields of FlowGraphBuilder / BaseFlowGraphBuilder
  objs,        \* the live region trackers, outermost first; a tracker's
               \* address is its position, so builder fields and outer_ links
               \* are positions in objs or NULL
  joins,       \* block id -> try index of every JoinEntryInstr built so far
  unwinding,   \* TRUE while an error unwinds the translation
  hist,        \* history: for each live tracker, the builder before and after
               \* its constructor ran, and the constructor's argument
  rlast,       \* history: the last tracker operation, its inputs and outputs
  flow_graph,  \* the graph assembled at the end of the translation
  active_class,\* the ActiveClass object of the translation
  guards,      \* the live scope guards on active_class, outermost first
  alast,       \* history: the last scope guard operation
  peer,        \* a second, independent translator: its builder, its live
               \* trackers and the ids it has obtained
  threads,     \* Thread -> the thread's next deopt id
  ids          \* history: the ids this translation has obtained, in order: the
               \* ids of the blocks built, the try indices AllocateTryIndex
               \* returned, the try indices of the exception-protected
               \* regions constructed, and the deopt ids

fragVars == <<frags, acc, graph, instrs, last>>
regionVars == <<builder, objs, hist, joins, unwinding, rlast>>
scopeVars == <<flow_graph, active_class, guards, alast>>
peerVars == <<peer, threads>>
restVars == <<scopeVars, peerVars>>
otherVars == <<scopeVars, ids, peerVars>>
vars == <<frags, acc, graph, steps, instrs, last, fatal,
          builder, objs, hist, joins, unwinding, rlast, otherVars>>

\* ------------------------------------------------------------- class Fragment
\* Fragment() : entry(NULL), current(NULL)
FragmentEmpty == [entry |-> NULL, current |-> NULL]

\* A single-instruction fragment that forgets to set current.
FragmentOf_nocurrent(instruction) == [entry |-> instruction, current |-> NULL]

\* explicit Fragment(Instruction* instruction)
FragmentOf(instruction) == [entry |-> instruction, current |-> instruction]

\* Fragment(Instruction* entry, Instruction* current)
FragmentPair(entry, current) == [entry |-> entry, current |-> current]

\* A plausible slip in is_open: '!=' for '==' in the first test.
is_open_slip(f) == f.entry # NULL \/ f.current # NULL

\* bool is_open() { return entry == NULL || current != NULL; }
is_open(f) == f.entry = NULL \/ f.current # NULL

\* bool is_closed() { return !is_open(); }
is_closed(f) == ~is_open(f)

\* Instruction::LinkTo(next): one edge from this instruction to next.
LinkTo(g, from, to) == g \cup {<<from, to>>}

\* A concatenation that treats an empty right operand like any other: it
\* takes over the right operand's (null) current.
PlusAssign_closing(g, a, b) ==
  IF a.entry = NULL THEN [f |-> b, g |-> g]
  ELSE IF a.current # NULL
       THEN [f |-> [entry |-> a.entry, current |-> b.current],
             g |-> IF b.entry # NULL THEN LinkTo(g, a.current, b.entry) ELSE g]
       ELSE [f |-> a, g |-> g]

\* Fragment& operator+=(const Fragment& other): concatenate.  An empty left
\* operand takes over the right one; an open left operand is wired to the
\* entry of a non-empty right operand and takes its current; a closed left
\* operand, or an empty right operand, leaves the left operand as it is.
PlusAssign(g, a, b) ==
  IF a.entry = NULL THEN [f |-> b, g |-> g]
  ELSE IF a.current # NULL /\ b.entry # NULL
       THEN [f |-> [entry |-> a.entry, current |-> b.current],
             g |-> LinkTo(g, a.current, b.entry)]
       ELSE [f |-> a, g |-> g]

\* Fragment operator+(const Fragment& first, const Fragment& second):
\* a copy of first, extended with +=.
Plus(g, first, second) == PlusAssign(g, first, second)

\* Fragment& operator<<=(Instruction* next): append one instruction, which is
\* entry and current of the right operand.
AppendAssign(g, a, next) == PlusAssign(g, a, FragmentOf(next))

\* Fragment operator<<(const Fragment& fragment, Instruction* next)
AppendOp(g, fragment, next) == AppendAssign(g, fragment, next)

\* Fragment closed(): the same entry, a null current.
closed(f) == [entry |-> f.entry, current |-> NULL]

\* Nodes reachable from a fragment's entry along the edges of g.
RECURSIVE ReachFrom(_, _)
ReachFrom(g, S) ==
  LET T == S \cup {e[2] : e \in {d \in g : d[1] \in S}}
  IN IF T = S THEN S ELSE ReachFrom(g, T)

ReachableNodes(g, f) == IF f.entry = NULL THEN {} ELSE ReachFrom(g, {f.entry})
ReachableEdges(g, f) == {e \in g : e[1] \in ReachableNodes(g, f)}

\* --------------------------------------------------- BaseFlowGraphBuilder
\* BaseFlowGraphBuilder(parsed_function, last_used_block_id,
\* context_level_array) and the region chains and depths of FlowGraphBuilder,
\* which start out empty.  thread_ is Thread::Current(), thread 1 for the
\* translation the model follows, and the builder is given an empty
\* context_level_array.
NewBuilder(last_used_block_id) ==
  [context_depth_ |-> 0,
   last_used_block_id_ |-> last_used_block_id,
   try_catch_block_ |-> NULL,
   next_used_try_index_ |-> 0,
   try_depth_ |-> 0,
   catch_depth_ |-> 0,
   breakable_block_ |-> NULL,
   switch_block_ |-> NULL,
   try_finally_block_ |-> NULL,
   catch_block_ |-> NULL,
   yield_continuations_ |-> <<>>,
   thread_ |-> 1,
   context_level_array_ |-> <<>>]

\* An allocator that hands out the same try index again.
AllocateTryIndex_stuck(b) ==
  [result |-> b.next_used_try_index_, b |-> b]

\* intptr_t AllocateTryIndex() { return next_used_try_index_++; }
AllocateTryIndex(b) ==
  [result |-> b.next_used_try_index_,
   b |-> [b EXCEPT !.next_used_try_index_ = @ + 1]]

\* An allocator that increments after it has taken the id.
AllocateBlockId_post(b) ==
  [result |-> b.last_used_block_id_,
   b |-> [b EXCEPT !.last_used_block_id_ = @ + 1]]

\* intptr_t AllocateBlockId() { return ++last_used_block_id_; }
AllocateBlockId(b) ==
  [result |-> b.last_used_block_id_ + 1,
   b |-> [b EXCEPT !.last_used_block_id_ = @ + 1]]

\* Thread::GetNextDeoptId(), on thread object t: the thread's next deopt id,
\* and the thread after it.
ThreadGetNextDeoptId(t) ==
  [result |-> t.deopt_id_, t |-> [t EXCEPT !.deopt_id_ = @ + 1]]

\* A GetNextDeoptId that returns the context level for the deopt id.
GetNextDeoptId_level(b, ts) ==
  LET next == ThreadGetNextDeoptId(ts[b.thread_]) IN
    [result |-> b.context_depth_,
     b |-> [b EXCEPT !.context_level_array_ = @ \o <<next.result, b.context_depth_>>],
     threads |-> [ts EXCEPT ![b.thread_] = next.t]]

\* intptr_t GetNextDeoptId(): the id comes from the builder's thread, and the
\* pair (deopt_id, context_depth_) is added to context_level_array_.
GetNextDeoptId(b, ts) ==
  LET next == ThreadGetNextDeoptId(ts[b.thread_]) IN
    [result |-> next.result,
     b |-> [b EXCEPT !.context_level_array_ = @ \o <<next.result, b.context_depth_>>],
     threads |-> [ts EXCEPT ![b.thread_] = next.t]]

\* intptr_t CurrentTryIndex(): the try index of the innermost live
\* exception-protected region, the invalid index when there is none.
CurrentTryIndex(b, os) ==
  IF b.try_catch_block_ = NULL THEN kInvalidTryIndex
  ELSE os[b.try_catch_block_].try_index_

\* A continuation that drops the try index it is given.
YieldContinuation_notry(entry, try_index) ==
  [entry |-> entry, try_index |-> kInvalidTryIndex]

\* YieldContinuation(Instruction* entry, intptr_t try_index)
YieldContinuation(entry, try_index) == [entry |-> entry, try_index |-> try_index]

\* A suspension point: yield_continuations_.Add(YieldContinuation(entry,
\* CurrentTryIndex())) with the resume entry of the code after it.
AddYieldContinuation(b, os, entry) ==
  [b EXCEPT !.yield_continuations_ =
     Append(@, YieldContinuation(entry, CurrentTryIndex(b, os)))]

\* The generator dispatch blocks of the finished graph: none without a
\* suspension point, else one block with the edge to the initial entry and
\* one resume edge per continuation, in the order of the list.
DispatchBlocks(b) ==
  IF Len(b.yield_continuations_) = 0 THEN <<>>
  ELSE <<[initial_entry |-> TRUE,
          resume |-> [i \in 1..Len(b.yield_continuations_) |->
                        [state |-> i,
                         entry |-> b.yield_continuations_[i].entry,
                         try_index |-> b.yield_continuations_[i].try_index]]]>>

\* JoinEntryInstr* BuildJoinEntry(intptr_t try_index): a join entry with a
\* newly allocated block id, tagged with try_index.  The block id stands for
\* the instruction's address.
BuildJoinEntry(b, js, try_index) ==
  LET id == AllocateBlockId(b) IN
    [result |-> id.result,
     b |-> id.b,
     joins |-> [k \in DOMAIN js \cup {id.result} |->
                  IF k = id.result THEN try_index ELSE js[k]]]

\* TargetEntryInstr* BuildTargetEntry(): a target entry with a newly allocated
\* block id.
BuildTargetEntry(b) == AllocateBlockId(b)

\* JoinEntryInstr* BuildJoinEntry(): a join entry in the current try region.
BuildJoinEntryHere(b, os, js) == BuildJoinEntry(b, js, CurrentTryIndex(b, os))

\* --------------------------------------------------------------- IntMap
\* V Lookup(const Key& key): the value stored under key, V() when there is none.
Lookup(map, key) == IF key \in DOMAIN map THEN map[key] ELSE NULL

\* void Insert(const Key& key, const Value& value)
Insert(map, key, value) ==
  [k \in DOMAIN map \cup {key} |-> IF k = key THEN value ELSE map[k]]

\* ------------------------------------------------------- region trackers
\* The five chain heads of the builder.
Tops(b) ==
  [try_catch |-> b.try_catch_block_,
   try_finally |-> b.try_finally_block_,
   switch |-> b.switch_block_,
   breakable |-> b.breakable_block_,
   catch |-> b.catch_block_]

\* A switch block that does not add the enclosing block's case count.
SwitchBlock_samedepth(b, os, case_count) ==
  [kind |-> "switch",
   outer_ |-> b.switch_block_,
   destinations_ |-> <<>>,
   outer_finally_ |-> b.try_finally_block_,
   case_count_ |-> case_count,
   depth_ |-> IF b.switch_block_ # NULL THEN os[b.switch_block_].depth_ ELSE 0,
   context_depth_ |-> b.context_depth_,
   try_index_ |-> CurrentTryIndex(b, os)]

\* SwitchBlock(FlowGraphBuilder* builder, intptr_t case_count): the fields of
\* the new object.
SwitchBlock(b, os, case_count) ==
  [kind |-> "switch",
   outer_ |-> b.switch_block_,
   destinations_ |-> <<>>,
   outer_finally_ |-> b.try_finally_block_,
   case_count_ |-> case_count,
   depth_ |-> IF b.switch_block_ # NULL
              THEN os[b.switch_block_].depth_ + os[b.switch_block_].case_count_
              ELSE 0,
   context_depth_ |-> b.context_depth_,
   try_index_ |-> CurrentTryIndex(b, os)]

\* A constructor that keeps the index it is given and never allocates one.
TryCatchBlock_noalloc(b, try_handler_index) ==
  [obj |-> [kind |-> "try_catch",
            outer_ |-> b.try_catch_block_,
            try_index_ |-> try_handler_index],
   b |-> b]

\* TryCatchBlock(BaseFlowGraphBuilder* builder, intptr_t try_handler_index = -1):
\* the fields of the new object and the builder after AllocateTryIndex.
TryCatchBlock(b, try_handler_index) ==
  LET fresh == AllocateTryIndex(b) IN
    [obj |-> [kind |-> "try_catch",
              outer_ |-> b.try_catch_block_,
              try_index_ |-> IF try_handler_index = -1 THEN fresh.result
                             ELSE try_handler_index],
     b |-> IF try_handler_index = -1 THEN fresh.b ELSE b]

\* A finally block that does not link to the enclosing finally block.
TryFinallyBlock_unlinked(b, os, finalizer_kernel_offset) ==
  [kind |-> "try_finally",
   outer_ |-> NULL,
   finalizer_kernel_offset_ |-> finalizer_kernel_offset,
   context_depth_ |-> b.context_depth_,
   try_depth_ |-> b.try_depth_ - 1,
   try_index_ |-> CurrentTryIndex(b, os)]

\* A finally block that records the builder's try depth as it is.
TryFinallyBlock_trydepth(b, os, finalizer_kernel_offset) ==
  [kind |-> "try_finally",
   outer_ |-> b.try_finally_block_,
   finalizer_kernel_offset_ |-> finalizer_kernel_offset,
   context_depth_ |-> b.context_depth_,
   try_depth_ |-> b.try_depth_,
   try_index_ |-> CurrentTryIndex(b, os)]

\* TryFinallyBlock(FlowGraphBuilder* builder, intptr_t finalizer_kernel_offset)
TryFinallyBlock(b, os, finalizer_kernel_offset) ==
  [kind |-> "try_finally",
   outer_ |-> b.try_finally_block_,
   finalizer_kernel_offset_ |-> finalizer_kernel_offset,
   context_depth_ |-> b.context_depth_,
   try_depth_ |-> b.try_depth_ - 1,
   try_index_ |-> CurrentTryIndex(b, os)]


\* A breakable block that takes the enclosing block's index as its own.
BreakableBlock_flat(b, os) ==
  [kind |-> "breakable",
   outer_ |-> b.breakable_block_,
   destination_ |-> NULL,
   outer_finally_ |-> b.try_finally_block_,
   context_depth_ |-> b.context_depth_,
   try_index_ |-> CurrentTryIndex(b, os),
   index_ |-> IF b.breakable_block_ = NULL THEN 0
              ELSE os[b.breakable_block_].index_]

\* A breakable block that does not record the enclosing finally region.
BreakableBlock_nofinally(b, os) ==
  [kind |-> "breakable",
   outer_ |-> b.breakable_block_,
   destination_ |-> NULL,
   outer_finally_ |-> NULL,
   context_depth_ |-> b.context_depth_,
   try_index_ |-> CurrentTryIndex(b, os),
   index_ |-> IF b.breakable_block_ = NULL THEN 0
              ELSE os[b.breakable_block_].index_ + 1]

\* explicit BreakableBlock(FlowGraphBuilder* builder)
BreakableBlock(b, os) ==
  [kind |-> "breakable",
   outer_ |-> b.breakable_block_,
   destination_ |-> NULL,
   outer_finally_ |-> b.try_finally_block_,
   context_depth_ |-> b.context_depth_,
   try_index_ |-> CurrentTryIndex(b, os),
   index_ |-> IF b.breakable_block_ = NULL THEN 0
              ELSE os[b.breakable_block_].index_ + 1]

\* CatchBlock(builder, exception_var, stack_trace_var, catch_try_index)
CatchBlock(b, exception_var, stack_trace_var, catch_try_index) ==
  [kind |-> "catch",
   outer_ |-> b.catch_block_,
   exception_var_ |-> exception_var,
   stack_trace_var_ |-> stack_trace_var,
   catch_try_index_ |-> catch_try_index]

\* An assignment in which the catch block writes the head of the chain of
\* exception-protected regions.
SetChainHead_slip(b, kind, ptr) ==
  CASE kind = "switch"      -> [b EXCEPT !.switch_block_ = ptr]
    [] kind = "try_catch"   -> [b EXCEPT !.try_catch_block_ = ptr]
    [] kind = "try_finally" -> [b EXCEPT !.try_finally_block_ = ptr]
    [] kind = "breakable"   -> [b EXCEPT !.breakable_block_ = ptr]
    [] kind = "catch"       -> [b EXCEPT !.try_catch_block_ = ptr]

\* builder_->switch_block_ = ..., builder->try_catch_block_ = ..., and so on:
\* the assignment to the chain head of one kind.
SetChainHead(b, kind, ptr) ==
  CASE kind = "switch"      -> [b EXCEPT !.switch_block_ = ptr]
    [] kind = "try_catch"   -> [b EXCEPT !.try_catch_block_ = ptr]
    [] kind = "try_finally" -> [b EXCEPT !.try_finally_block_ = ptr]
    [] kind = "breakable"   -> [b EXCEPT !.breakable_block_ = ptr]
    [] kind = "catch"       -> [b EXCEPT !.catch_block_ = ptr]

\* A destructor that empties the chain instead of restoring the outer link.
Destructor_null(b, obj) == SetChainHead(b, obj.kind, NULL)

\* ~SwitchBlock() { builder_->switch_block_ = outer_; } and the destructors
\* of the other four kinds, which do the same for their chain.
Destructor(b, obj) == SetChainHead(b, obj.kind, obj.outer_)

\* --------------------------------------------- SwitchBlock destinations
RECURSIVE FindSwitchBlock(_, _, _)

\* A walk that takes one step outward at most.
FindSwitchBlock_onestep(os, block, target_index) ==
  IF block # NULL /\ os[block].depth_ > target_index THEN os[block].outer_ ELSE block

\* SwitchBlock* block = this;
\* while (block->depth_ > target_index) block = block->outer_;
FindSwitchBlock(os, block, target_index) ==
  IF block # NULL /\ os[block].depth_ > target_index
  THEN FindSwitchBlock(os, os[block].outer_, target_index)
  ELSE block

\* An EnsureDestination that builds a new join entry on every request.
EnsureDestination_eager(b, os, js, block, case_num) ==
  LET built == BuildJoinEntry(b, js, os[block].try_index_) IN
    [result |-> built.result,
     b |-> built.b,
     joins |-> built.joins,
     os |-> [os EXCEPT ![block].destinations_ =
               Insert(os[block].destinations_, case_num, built.result)]]

\* JoinEntryInstr* EnsureDestination(intptr_t case_num), on object block.
EnsureDestination(b, os, js, block, case_num) ==
  LET cached_inst == Lookup(os[block].destinations_, case_num)
      built == BuildJoinEntry(b, js, os[block].try_index_)
  IN IF cached_inst = NULL
     THEN [result |-> built.result,
           b |-> built.b,
           joins |-> built.joins,
           os |-> [os EXCEPT ![block].destinations_ =
                     Insert(os[block].destinations_, case_num, built.result)]]
     ELSE [result |-> cached_inst, b |-> b, joins |-> js, os |-> os]

\* A HadJumper that answers for the block as a whole.
SwitchHadJumper_any(os, block, case_num) ==
  DOMAIN os[block].destinations_ # {}

\* bool HadJumper(intptr_t case_num), on object block.
SwitchHadJumper(os, block, case_num) ==
  Lookup(os[block].destinations_, case_num) # NULL

\* A Destination that hands the target index itself to EnsureDestination.
Destination_absolute(b, os, js, this, target_index) ==
  LET block == FindSwitchBlock(os, this, target_index)
      ensured == EnsureDestination(b, os, js, block, target_index)
  IN [block |-> block,
      outer_finally |-> os[block].outer_finally_,
      context_depth |-> os[block].context_depth_,
      ensured |-> ensured]

\* JoinEntryInstr* Destination(target_index, outer_finally, context_depth), on
\* object this: the block found, the join entry and the two out-parameters.
Destination(b, os, js, this, target_index) ==
  LET block == FindSwitchBlock(os, this, target_index)
      ensured == EnsureDestination(b, os, js, block, target_index - os[block].depth_)
  IN [block |-> block,
      outer_finally |-> os[block].outer_finally_,
      context_depth |-> os[block].context_depth_,
      ensured |-> ensured]

\* JoinEntryInstr* DestinationDirect(case_num, outer_finally, context_depth),
\* on object this.
DestinationDirect(b, os, js, this, case_num) ==
  [block |-> this,
   outer_finally |-> os[this].outer_finally_,
   context_depth |-> os[this].context_depth_,
   ensured |-> EnsureDestination(b, os, js, this, case_num)]

\* ------------------------------------------- BreakableBlock destinations
RECURSIVE FindBreakableBlock(_, _, _)

\* A walk that stays at the innermost breakable block.
FindBreakableBlock_innermost(os, block, label_index) == block

\* BreakableBlock* block = builder_->breakable_block_;
\* while (block->index_ != label_index) block = block->outer_;
\* The result is NULL when the walk runs off the chain, where the code
\* dereferences a null pointer.
FindBreakableBlock(os, block, label_index) ==
  IF block # NULL /\ os[block].index_ # label_index
  THEN FindBreakableBlock(os, os[block].outer_, label_index)
  ELSE block

\* An EnsureDestination that builds a new join entry on every request.
BreakableEnsureDestination_eager(b, os, js, block) ==
  LET built == BuildJoinEntry(b, js, os[block].try_index_) IN
    [result |-> built.result, b |-> built.b, joins |-> built.joins,
     os |-> [os EXCEPT ![block].destination_ = built.result]]

\* An EnsureDestination that builds the join entry in the try region of the
\* jump.
BreakableEnsureDestination_here(b, os, js, block) ==
  LET built == BuildJoinEntryHere(b, os, js) IN
    IF os[block].destination_ = NULL
    THEN [result |-> built.result, b |-> built.b, joins |-> built.joins,
          os |-> [os EXCEPT ![block].destination_ = built.result]]
    ELSE [result |-> os[block].destination_, b |-> b, joins |-> js, os |-> os]

\* JoinEntryInstr* BreakableBlock::EnsureDestination(), on object block.
BreakableEnsureDestination(b, os, js, block) ==
  LET built == BuildJoinEntry(b, js, os[block].try_index_) IN
    IF os[block].destination_ = NULL
    THEN [result |-> built.result, b |-> built.b, joins |-> built.joins,
          os |-> [os EXCEPT ![block].destination_ = built.result]]
    ELSE [result |-> os[block].destination_, b |-> b, joins |-> js, os |-> os]

\* bool BreakableBlock::HadJumper(), on object block.
BreakableHadJumper(os, block) == os[block].destination_ # NULL

\* JoinEntryInstr* destination(), on object block.
destination(os, block) == os[block].destination_

\* JoinEntryInstr* BreakDestination(label_index, outer_finally, context_depth):
\* the block found, the join entry and the two out-parameters.  Defined when
\* the walk finds a block.
BreakDestination(b, os, js, label_index) ==
  LET block == FindBreakableBlock(os, b.breakable_block_, label_index) IN
    [block |-> block,
     outer_finally |-> os[block].outer_finally_,
     context_depth |-> os[block].context_depth_,
     ensured |-> BreakableEnsureDestination(b, os, js, block)]

\* ------------------------------------------------ finalizers at non-local exits
RECURSIVE TranslateFinallyFinalizers(_, _, _)

\* Fragment TranslateFinallyFinalizers(outer_finally, target_context_depth):
\* for every finally region from block (the builder's try_finally_block_)
\* outward, up to and without outer_finally, the context is adjusted to the
\* region's recorded depth and the finalizer body at the region's kernel
\* offset is translated.  The result lists these translations in emission order.
TranslateFinallyFinalizers(os, block, outer_finally) ==
  IF block = NULL \/ block = outer_finally THEN <<>>
  ELSE <<[item |-> "finalizer",
          context_depth |-> os[block].context_depth_,
          kernel_offset |-> os[block].finalizer_kernel_offset_]>>
       \o TranslateFinallyFinalizers(os, os[block].outer_, outer_finally)

\* Fragment Goto(JoinEntryInstr* destination)
Goto(join) == <<[item |-> "goto", context_depth |-> 0, kernel_offset |-> join]>>

\* The instructions of a jump to join out of the finally regions inside
\* outer_finally: the finalizers, then the goto.
JumpFragment(b, os, outer_finally, join) ==
  TranslateFinallyFinalizers(os, b.try_finally_block_, outer_finally) \o Goto(join)

\* ------------------------------------------------------------ ActiveClass
\* The classes, functions and type parameter lists of the program translated.
\* A TypeArguments pointer is modelled by the list it points to, NULL by <<>>.
Classes == {1, 2}
Functions == {1, 2}
TypeParameterLists == {<<"T">>}

\* ActiveClass(): klass(NULL), member(NULL), enclosing(NULL),
\* local_type_parameters(NULL)
ActiveClass ==
  [klass |-> NULL, member |-> NULL, enclosing |-> NULL,
   local_type_parameters |-> <<>>]

\* ActiveClassScope(ActiveClass* active_class, const Class* klass): the guard
\* object and the active class after the constructor.
ActiveClassScope(ac, klass) ==
  [guard |-> [kind |-> "class", saved_ |-> ac],
   ac |-> [ac EXCEPT !.klass = klass]]

\* ActiveMemberScope(ActiveClass* active_class, const Function* member)
ActiveMemberScope(ac, member) ==
  [guard |-> [kind |-> "member", saved_ |-> ac],
   ac |-> [ac EXCEPT !.member = member]]

\* The type parameters of function innermost and its enclosing closures.
TypeParametersOf(innermost) == <<<<"F", innermost>>>>

\* ActiveTypeParametersScope(active_class, innermost, Z): the local type
\* parameters become exactly those of innermost and its enclosing closures,
\* and the enclosing function becomes innermost.
ActiveTypeParametersScope(ac, innermost) ==
  [guard |-> [kind |-> "type_parameters", saved_ |-> ac],
   ac |-> [ac EXCEPT !.enclosing = innermost,
                     !.local_type_parameters = TypeParametersOf(innermost)]]

\* ActiveTypeParametersScope(active_class, function, new_params, Z): new_params
\* are appended to the local type parameters, and the enclosing function
\* becomes function.
ActiveTypeParametersScopeAppend(ac, function, new_params) ==
  [guard |-> [kind |-> "type_parameters", saved_ |-> ac],
   ac |-> [ac EXCEPT !.enclosing = function,
                     !.local_type_parameters = @ \o new_params]]

\* A destructor that puts back the class only.
RestoreActiveClass_klass(ac, guard) == [ac EXCEPT !.klass = guard.saved_.klass]

\* ~ActiveClassScope() { *active_class_ = saved_; } and the same destructor
\* of ActiveMemberScope and ActiveTypeParametersScope.
RestoreActiveClass(ac, guard) == guard.saved_

\* ---------------------------------------------------------------- initial state
NoOp == [op |-> "none", a |-> FragmentEmpty, b |-> FragmentEmpty,
         r |-> FragmentEmpty, g |-> {}]

\* First instruction of each operand fragment; the second is the one after it.
Base == [s \in Slots |-> CASE s = "a" -> 1 [] s = "b" -> 3]

\* The shapes an operand fragment is built in: empty; one instruction; a chain
\* of two linked instructions (Fragment(n) <<= n + 1); one closed instruction.
Shapes == {"empty", "single", "chain", "closed"}

ShapeFragment(shape, n) ==
  CASE shape = "empty"  -> FragmentEmpty
    [] shape = "single" -> FragmentOf(n)
    [] shape = "chain"  -> AppendAssign({}, FragmentOf(n), n + 1).f
    [] shape = "closed" -> closed(FragmentOf(n))

ShapeGraph(shape, n) ==
  IF shape = "chain" THEN AppendAssign({}, FragmentOf(n), n + 1).g ELSE {}

FragInit ==
  \E shape \in [Slots -> Shapes] :
    /\ frags = [s \in Slots |-> ShapeFragment(shape[s], Base[s])]
    /\ graph = UNION {ShapeGraph(shape[s], Base[s]) : s \in Slots}
    /\ acc = FragmentEmpty
    /\ instrs = 4
    /\ steps = 0
    /\ last = NoOp

NoRegionOp ==
  [op |-> "none", kind |-> "none", this |-> NULL, arg |-> 0, out |-> FALSE,
   block |-> NULL, result |-> NULL, outer_finally |-> NULL, context_depth |-> 0,
   pre |-> NewBuilder(0), frame |-> <<>>, case_num |-> 0, cached |-> NULL,
   emitted |-> <<>>, had |-> FALSE]

\* No id has been obtained; base is the last_used_block_id the builder was
\* constructed with.
NoIds == [base |-> 0, blocks |-> <<>>, tries |-> <<>>, regions |-> <<>>,
          deopts |-> <<>>]

NoScopeOp == [op |-> "none", kind |-> "none", pre |-> ActiveClass, arg |-> NULL]

\* No graph has been assembled.
NoFlowGraph == [built |-> FALSE, dispatch |-> <<>>]

\* The threads of the process.
Threads == {1, 2}

\* A second translator, constructed on thread t for a function inlined into
\* a graph that has used the block ids up to 2.
NewPeer(t) ==
  [builder |-> [NewBuilder(2) EXCEPT !.thread_ = t],
   objs |-> <<>>,
   ids |-> [NoIds EXCEPT !.base = 2]]

\* The state after FlowGraphBuilder's constructor, with the second translator
\* on thread peer_thread.
RegionInitOn(last_used_block_id, peer_thread) ==
  /\ builder = NewBuilder(last_used_block_id)
  /\ peer = NewPeer(peer_thread)
  /\ threads = [t \in Threads |-> [deopt_id_ |-> 0]]
  /\ objs = <<>>
  /\ hist = <<>>
  /\ joins = <<>>
  /\ unwinding = FALSE
  /\ rlast = NoRegionOp
  /\ flow_graph = NoFlowGraph
  /\ active_class = ActiveClass
  /\ guards = <<>>
  /\ alast = NoScopeOp
  /\ ids = [NoIds EXCEPT !.base = last_used_block_id]

RegionInitFrom(last_used_block_id) == RegionInitOn(last_used_block_id, 2)

RegionInit == RegionInitFrom(0)

Init ==
  /\ FragInit
  /\ RegionInit
  /\ fatal = FALSE

\* The translation is at its start and no fragment has been built.
InitRegionsOn(last_used_block_id, peer_thread) ==
  /\ frags = [s \in Slots |-> FragmentEmpty]
  /\ graph = {}
  /\ acc = FragmentEmpty
  /\ instrs = 4
  /\ steps = 0
  /\ last = NoOp
  /\ RegionInitOn(last_used_block_id, peer_thread)
  /\ fatal = FALSE

InitRegionsFrom(last_used_block_id) == InitRegionsOn(last_used_block_id, 2)

InitRegions == InitRegionsFrom(0)

\* Two translators, on the same thread or on two threads.
InitInstances == \E peer_thread \in Threads : InitRegionsOn(0, peer_thread)

\* The last_used_block_id a builder is constructed with: none used, or the
\* ids up to 2 used by the graph the function is inlined into.
InitialBlockIds == {0, 2}

InitBlocks == \E last_used_block_id \in InitialBlockIds :
                InitRegionsFrom(last_used_block_id)

\* ------------------------------------------------------- fragment operations
\* One more fragment operation of the run.
Step == steps < MaxSteps /\ steps' = steps + 1

\* One more tracker operation of the run; there is none after a fatal failure
\* or after the end of the translation.
Op == ~fatal /\ ~flow_graph.built /\ steps < MaxOps /\ steps' = steps + 1

\* Fragment acc;
NewEmpty ==
  /\ Step
  /\ acc' = FragmentEmpty
  /\ last' = [op |-> "new", a |-> FragmentEmpty, b |-> FragmentEmpty,
              r |-> FragmentEmpty, g |-> graph]
  /\ UNCHANGED <<frags, graph, instrs, fatal, regionVars, otherVars>>

\* Fragment acc(instruction); with a newly created instruction
NewInstr ==
  /\ Step
  /\ instrs < MaxInstr
  /\ instrs' = instrs + 1
  /\ acc' = FragmentOf(instrs + 1)
  /\ last' = [op |-> "new", a |-> FragmentEmpty, b |-> FragmentEmpty,
              r |-> FragmentOf(instrs + 1), g |-> graph]
  /\ UNCHANGED <<frags, graph, fatal, regionVars, otherVars>>

\* Fragment acc(s.entry, t.current); spanning from the entry of one operand to
\* the current of another
NewPair(s, t) ==
  /\ Step
  /\ frags[s].entry # NULL
  /\ acc' = FragmentPair(frags[s].entry, frags[t].current)
  /\ last' = [op |-> "new", a |-> FragmentEmpty, b |-> FragmentEmpty,
              r |-> FragmentPair(frags[s].entry, frags[t].current), g |-> graph]
  /\ UNCHANGED <<frags, graph, instrs, fatal, regionVars, otherVars>>

\* acc += t;
DoPlusAssign(t) ==
  LET res == PlusAssign(graph, acc, frags[t]) IN
    /\ Step
    /\ acc' = res.f
    /\ graph' = res.g
    /\ last' = [op |-> "concat", a |-> acc, b |-> frags[t], r |-> res.f, g |-> graph]
    /\ UNCHANGED <<frags, instrs, fatal, regionVars, otherVars>>

\* acc = s + t;
DoPlus(s, t) ==
  LET res == Plus(graph, frags[s], frags[t]) IN
    /\ Step
    /\ acc' = res.f
    /\ graph' = res.g
    /\ last' = [op |-> "concat", a |-> frags[s], b |-> frags[t],
                r |-> res.f, g |-> graph]
    /\ UNCHANGED <<frags, instrs, fatal, regionVars, otherVars>>

\* acc <<= next; with a newly created instruction
DoAppendAssign ==
  LET res == AppendAssign(graph, acc, instrs + 1) IN
    /\ Step
    /\ instrs < MaxInstr
    /\ instrs' = instrs + 1
    /\ acc' = res.f
    /\ graph' = res.g
    /\ last' = [op |-> "append", a |-> acc, b |-> FragmentOf(instrs + 1),
                r |-> res.f, g |-> graph]
    /\ UNCHANGED <<frags, fatal, regionVars, otherVars>>

\* acc = s << next; with a newly created instruction
DoAppend(s) ==
  LET res == AppendOp(graph, frags[s], instrs + 1) IN
    /\ Step
    /\ instrs < MaxInstr
    /\ instrs' = instrs + 1
    /\ acc' = res.f
    /\ graph' = res.g
    /\ last' = [op |-> "append", a |-> frags[s], b |-> FragmentOf(instrs + 1),
                r |-> res.f, g |-> graph]
    /\ UNCHANGED <<frags, fatal, regionVars, otherVars>>

\* acc = acc.closed();
DoClosed ==
  /\ Step
  /\ acc' = closed(acc)
  /\ last' = [op |-> "closed", a |-> acc, b |-> FragmentEmpty,
              r |-> closed(acc), g |-> graph]
  /\ UNCHANGED <<frags, graph, instrs, fatal, regionVars, otherVars>>

FragNext ==
  \/ NewEmpty
  \/ NewInstr
  \/ \E s, t \in Slots : NewPair(s, t)
  \/ \E t \in Slots : DoPlusAssign(t)
  \/ \E s, t \in Slots : DoPlus(s, t)
  \/ DoAppendAssign
  \/ \E s \in Slots : DoAppend(s)
  \/ DoClosed

\* ------------------------------------------------------ tracker operations
\* Kernel offsets of finalizer bodies, and the exception and stack trace
\* variables of the scope building result, by catch nesting level.
FinalizerOffsets == {11, 22}

\* Case counts of the switch statements translated: no case, two cases.
CaseCounts == {0, 2}
CatchLevels == {0, 1}
exception_variables == [l \in CatchLevels |-> <<"exception", l>>]
stack_trace_variables == [l \in CatchLevels |-> <<"stack_trace", l>>]

\* A CurrentException that reads the slot of the enclosing nesting level.
CurrentException_outer(b) ==
  exception_variables[IF b.catch_depth_ > 1 THEN b.catch_depth_ - 2 ELSE 0]

\* LocalVariable* CurrentException()
CurrentException(b) == exception_variables[b.catch_depth_ - 1]

\* LocalVariable* CurrentStackTrace()
CurrentStackTrace(b) == stack_trace_variables[b.catch_depth_ - 1]

\* The try indices allocated so far; a catch block is given the index of the
\* try it belongs to.
TryIndexInputs == 0 .. (builder.next_used_try_index_ - 1)

LiveOfKind(kind) == {i \in 1..Len(objs) : objs[i].kind = kind}

\* A constructor ran on the builder pre: the new object obj is at the top of
\* the stack of live trackers and heads its chain in builder b.  allocated
\* are the try indices AllocateTryIndex returned on the way.
ConstructFrom(pre, obj, b, arg, allocated) ==
  /\ ~unwinding
  /\ Op
  /\ objs' = Append(objs, obj)
  /\ builder' = SetChainHead(b, obj.kind, Len(objs) + 1)
  /\ hist' = Append(hist, [pre |-> pre,
                           post |-> SetChainHead(b, obj.kind, Len(objs) + 1),
                           arg |-> arg, first |-> <<>>, built |-> <<>>])
  /\ rlast' = [NoRegionOp EXCEPT !.op = "construct", !.kind = obj.kind,
                                 !.this = Len(objs) + 1, !.arg = arg,
                                 !.pre = pre]
  /\ ids' = [ids EXCEPT
               !.tries = @ \o allocated,
               !.regions = IF obj.kind = "try_catch" THEN Append(@, obj.try_index_)
                           ELSE @]
  /\ UNCHANGED <<joins, unwinding, fatal, fragVars, restVars>>

Construct(obj, b, arg) == ConstructFrom(builder, obj, b, arg, <<>>)

\* SwitchBlock block(this, case_count);
ConstructSwitchBlock ==
  \E case_count \in CaseCounts :
    Construct(SwitchBlock(builder, objs, case_count), builder, case_count)

\* TryCatchBlock block(this); where the constructor allocates the try index,
\* or intptr_t try_handler_index = AllocateTryIndex(); ...
\* TryCatchBlock block(this, try_handler_index); where the translation of the
\* try statement has allocated it for the region.
ConstructTryCatchBlock ==
  \E explicit \in BOOLEAN :
    LET fresh == AllocateTryIndex(builder)
        pre == IF explicit THEN fresh.b ELSE builder
        try_handler_index == IF explicit THEN fresh.result ELSE -1
        block == TryCatchBlock(pre, try_handler_index)
    IN ConstructFrom(pre, block.obj, block.b, try_handler_index,
                     IF explicit THEN <<fresh.result>> ELSE <<block.obj.try_index_>>)

\* TryFinallyBlock block(this, finalizer_kernel_offset);
ConstructTryFinallyBlock ==
  \E offset \in FinalizerOffsets :
    Construct(TryFinallyBlock(builder, objs, offset), builder, offset)

\* BreakableBlock block(this);
ConstructBreakableBlock ==
  Construct(BreakableBlock(builder, objs), builder, 0)

\* CatchBlock block(this, exception_var, stack_trace_var, catch_try_index);
ConstructCatchBlock ==
  \E l \in CatchLevels, catch_try_index \in TryIndexInputs :
    Construct(CatchBlock(builder, exception_variables[l], stack_trace_variables[l],
                         catch_try_index),
              builder, catch_try_index)

\* The innermost live tracker goes out of scope and its destructor runs, at
\* the end of its construct or while an error unwinds the translation.
Destroy(kind) ==
  /\ Len(objs) > 0
  /\ objs[Len(objs)].kind = kind
  /\ Op
  /\ builder' = Destructor(builder, objs[Len(objs)])
  /\ objs' = SubSeq(objs, 1, Len(objs) - 1)
  /\ hist' = SubSeq(hist, 1, Len(hist) - 1)
  /\ rlast' = [NoRegionOp EXCEPT !.op = "destroy", !.kind = kind,
                                 !.this = Len(objs), !.pre = builder,
                                 !.frame = hist[Len(hist)]]
  /\ UNCHANGED <<joins, unwinding, fatal, fragVars, otherVars>>

DestroySwitchBlock == Destroy("switch")
DestroyTryCatchBlock == Destroy("try_catch")
DestroyTryFinallyBlock == Destroy("try_finally")
DestroyBreakableBlock == Destroy("breakable")
DestroyCatchBlock == Destroy("catch")

\* An error is raised inside the innermost live region: from here on the
\* translation only unwinds.
RaiseError ==
  /\ ~unwinding
  /\ Len(objs) > 0
  /\ Op
  /\ unwinding' = TRUE
  /\ rlast' = [NoRegionOp EXCEPT !.op = "error", !.pre = builder]
  /\ UNCHANGED <<builder, objs, hist, joins, fatal, fragVars, otherVars>>

\* The translation enters a scope with captured variables: context_depth_++.
EnterContext ==
  /\ ~unwinding
  /\ Op
  /\ builder' = [builder EXCEPT !.context_depth_ = @ + 1]
  /\ rlast' = [NoRegionOp EXCEPT !.op = "context", !.pre = builder]
  /\ UNCHANGED <<objs, hist, joins, unwinding, fatal, fragVars, otherVars>>

\* The translation leaves a scope with captured variables: context_depth_--.
ExitContext ==
  /\ ~unwinding
  /\ builder.context_depth_ > 0
  /\ Op
  /\ builder' = [builder EXCEPT !.context_depth_ = @ - 1]
  /\ rlast' = [NoRegionOp EXCEPT !.op = "context", !.pre = builder]
  /\ UNCHANGED <<objs, hist, joins, unwinding, fatal, fragVars, otherVars>>

\* history of a destination request resolved to object block for case case_num
Requested(h, block, case_num, d) ==
  [h EXCEPT ![block].first =
              IF case_num \in DOMAIN @ THEN @ ELSE Insert(@, case_num, d.ensured.result),
            ![block].built =
              Insert(@, case_num,
                     Lookup(@, case_num) +
                       (d.ensured.b.last_used_block_id_ - builder.last_used_block_id_))]

\* The outcome d of a destination request is taken over into the state.
Request(op, this, arg, out, case_num, d) ==
  /\ ~unwinding
  /\ Op
  /\ builder' = d.ensured.b
  /\ objs' = d.ensured.os
  /\ joins' = d.ensured.joins
  /\ hist' = Requested(hist, d.block, case_num, d)
  /\ rlast' = [NoRegionOp EXCEPT
                 !.op = op, !.kind = "switch", !.this = this, !.arg = arg,
                 !.out = out, !.block = d.block, !.result = d.ensured.result,
                 !.outer_finally = IF out THEN d.outer_finally ELSE NULL,
                 !.context_depth = IF out THEN d.context_depth ELSE 0,
                 !.pre = builder, !.case_num = case_num,
                 !.cached = Lookup(objs[d.block].destinations_, case_num),
                 !.emitted = IF out
                             THEN JumpFragment(builder, objs, d.outer_finally,
                                               d.ensured.result)
                             ELSE <<>>]
  /\ ids' = [ids EXCEPT !.blocks =
               IF Lookup(objs[d.block].destinations_, case_num) = NULL
               THEN Append(@, d.ensured.result) ELSE @]
  /\ UNCHANGED <<unwinding, fatal, fragVars, restVars>>

\* this->Destination(target_index, &outer_finally, &context_depth); or, with
\* out FALSE, this->Destination(target_index);
DoDestination ==
  \E this \in LiveOfKind("switch"), out \in BOOLEAN :
    \E target_index \in 0 .. (objs[this].depth_ + objs[this].case_count_) :
      LET d == Destination(builder, objs, joins, this, target_index) IN
        Request("Destination", this, target_index, out,
                target_index - objs[d.block].depth_, d)

\* this->DestinationDirect(case_num, &outer_finally, &context_depth); or, with
\* out FALSE, this->DestinationDirect(case_num);
DoDestinationDirect ==
  \E this \in LiveOfKind("switch"), out \in BOOLEAN :
    \E case_num \in 0 .. (objs[this].case_count_ - 1) :
      Request("DestinationDirect", this, case_num, out, case_num,
              DestinationDirect(builder, objs, joins, this, case_num))

\* builder.breakable_block_->BreakDestination(label_index, &outer_finally,
\* &context_depth); for the label of a live breakable block, followed by the
\* finalizers and the jump of the break statement.
DoBreakDestination ==
  /\ ~unwinding
  /\ builder.breakable_block_ # NULL
  /\ \E label_index \in 0 .. objs[builder.breakable_block_].index_ :
       LET d == BreakDestination(builder, objs, joins, label_index) IN
         /\ Op
         /\ builder' = d.ensured.b
         /\ objs' = d.ensured.os
         /\ joins' = d.ensured.joins
         /\ hist' = Requested(hist, d.block, 0, d)
         /\ rlast' = [NoRegionOp EXCEPT
                        !.op = "BreakDestination", !.kind = "breakable",
                        !.this = builder.breakable_block_, !.arg = label_index,
                        !.out = TRUE, !.block = d.block,
                        !.result = d.ensured.result,
                        !.outer_finally = d.outer_finally,
                        !.context_depth = d.context_depth,
                        !.pre = builder,
                        !.cached = destination(objs, d.block),
                        !.emitted = JumpFragment(builder, objs, d.outer_finally,
                                                 d.ensured.result)]
         /\ ids' = [ids EXCEPT !.blocks =
                      IF destination(objs, d.block) = NULL
                      THEN Append(@, d.ensured.result) ELSE @]
         /\ UNCHANGED <<unwinding, fatal, fragVars, restVars>>

\* A return statement: TranslateFinallyFinalizers(NULL, -1), then the return.
ReturnStatement ==
  /\ ~unwinding
  /\ Op
  /\ rlast' = [NoRegionOp EXCEPT
                 !.op = "Return", !.out = TRUE, !.pre = builder,
                 !.emitted = TranslateFinallyFinalizers(objs, builder.try_finally_block_,
                                                        NULL)
                             \o <<[item |-> "return", context_depth |-> 0,
                                   kernel_offset |-> 0]>>]
  /\ UNCHANGED <<builder, objs, hist, joins, unwinding, fatal, fragVars, otherVars>>

\* Loops and labeled blocks nested in each other, in finally regions and in
\* scopes with captured variables, and the breaks and returns out of them.
BreakNext ==
  \/ ConstructBreakableBlock
  \/ ConstructTryFinallyBlock
  \/ DestroyBreakableBlock
  \/ DestroyTryFinallyBlock
  \/ EnterContext
  \/ ExitContext
  \/ DoBreakDestination
  \/ ReturnStatement

SpecBreak == InitRegions /\ [][BreakNext]_vars

\* Breakable regions, switch regions and finally regions nested in each
\* other, and the breaks, continues to a switch case and returns out of them.
ExitNext ==
  \/ ConstructBreakableBlock
  \/ ConstructSwitchBlock
  \/ ConstructTryFinallyBlock
  \/ DestroyBreakableBlock
  \/ DestroySwitchBlock
  \/ DestroyTryFinallyBlock
  \/ EnterContext
  \/ DoBreakDestination
  \/ DoDestination
  \/ ReturnStatement

SpecExits == InitRegions /\ [][ExitNext]_vars

\* A suspension point (yield, await) of the body: the fragment so far is
\* closed, the continuation is recorded and a new fragment begins at the
\* resume entry, a new instruction.
SuspensionPoint ==
  /\ ~unwinding
  /\ Op
  /\ instrs' = instrs + 1
  /\ acc' = FragmentOf(instrs + 1)
  /\ builder' = AddYieldContinuation(builder, objs, instrs + 1)
  /\ rlast' = [NoRegionOp EXCEPT !.op = "Yield", !.result = instrs + 1,
                                 !.arg = CurrentTryIndex(builder, objs),
                                 !.pre = builder]
  /\ UNCHANGED <<frags, graph, last, objs, hist, joins, unwinding, fatal, otherVars>>

\* The end of the translation, outside every region: the graph is assembled,
\* with the generator dispatch block when there are continuations.
FinishTranslation ==
  /\ ~unwinding
  /\ objs = <<>>
  /\ Op
  /\ flow_graph' = [built |-> TRUE, dispatch |-> DispatchBlocks(builder)]
  /\ rlast' = [NoRegionOp EXCEPT !.op = "Finish", !.pre = builder]
  /\ UNCHANGED <<builder, objs, hist, joins, unwinding, fatal, fragVars,
                 active_class, guards, alast, ids, peerVars>>

\* A generator or async body: suspension points inside and outside of
\* exception-protected regions, up to the end of the translation.
GeneratorNext ==
  \/ ConstructTryCatchBlock
  \/ DestroyTryCatchBlock
  \/ SuspensionPoint
  \/ FinishTranslation

SpecGenerator == InitRegions /\ [][GeneratorNext]_vars

\* builder.breakable_block_->BreakDestination(label_index, ...) for a label
\* of no live breakable block: the walk runs off the chain and reads index_
\* through a null pointer, before ASSERT(block != NULL) is reached.  The
\* behaviour is undefined: the translation crashes, or it goes on with
\* whatever the read yields and returns some join entry or none.
DoBreakDestinationUnresolved ==
  /\ ~unwinding
  /\ builder.breakable_block_ # NULL
  /\ \E label_index \in {-1, objs[builder.breakable_block_].index_ + 1},
        crash \in BOOLEAN, wild \in DOMAIN joins \cup {NULL} :
       /\ FindBreakableBlock(objs, builder.breakable_block_, label_index) = NULL
       /\ Op
       /\ fatal' = crash
       /\ rlast' = [NoRegionOp EXCEPT
                      !.op = "BreakDestinationUnresolved", !.kind = "breakable",
                      !.this = builder.breakable_block_, !.arg = label_index,
                      !.out = ~crash,
                      !.result = IF crash THEN NULL ELSE wild,
                      !.pre = builder]
       /\ UNCHANGED <<builder, objs, hist, joins, unwinding, fragVars, otherVars>>

\* Breaks and jumps to switch cases, also with targets that no live region has.
JumpNext ==
  \/ ConstructBreakableBlock
  \/ ConstructSwitchBlock
  \/ DestroyBreakableBlock
  \/ DestroySwitchBlock
  \/ DoBreakDestination
  \/ DoBreakDestinationUnresolved
  \/ DoDestination

SpecJumps == InitRegions /\ [][JumpNext]_vars

\* ------------------------------------------------------ scope guard operations
\* A scope guard was constructed: it is the innermost live guard.  The
\* history keeps the active class as it was before the constructor.
EnterScopeGuard(scope, arg) ==
  /\ Op
  /\ active_class' = scope.ac
  /\ guards' = Append(guards, [kind |-> scope.guard.kind,
                               saved_ |-> scope.guard.saved_,
                               pre |-> active_class])
  /\ alast' = [op |-> "enter", kind |-> scope.guard.kind, pre |-> active_class,
               arg |-> arg]
  /\ UNCHANGED <<fatal, fragVars, regionVars, flow_graph, ids, peerVars>>

\* ActiveClassScope active_class_scope(&active_class, &klass);
EnterActiveClassScope ==
  \E klass \in Classes :
    EnterScopeGuard(ActiveClassScope(active_class, klass), klass)

\* ActiveMemberScope active_member(&active_class, &member);
EnterActiveMemberScope ==
  \E member \in Functions :
    EnterScopeGuard(ActiveMemberScope(active_class, member), member)

\* ActiveTypeParametersScope active_type_params(&active_class, innermost, Z);
EnterActiveTypeParametersScope ==
  \E innermost \in Functions :
    EnterScopeGuard(ActiveTypeParametersScope(active_class, innermost), innermost)

\* ActiveTypeParametersScope scope(&active_class, function, new_params, Z);
EnterActiveTypeParametersScopeAppend ==
  \E function \in Functions, new_params \in TypeParameterLists :
    EnterScopeGuard(ActiveTypeParametersScopeAppend(active_class, function, new_params),
                    function)

\* The innermost live guard goes out of scope and its destructor runs.
ExitScopeGuard ==
  /\ Len(guards) > 0
  /\ Op
  /\ active_class' = RestoreActiveClass(active_class, guards[Len(guards)])
  /\ guards' = SubSeq(guards, 1, Len(guards) - 1)
  /\ alast' = [op |-> "exit", kind |-> guards[Len(guards)].kind,
               pre |-> guards[Len(guards)].pre, arg |-> NULL]
  /\ UNCHANGED <<fatal, fragVars, regionVars, flow_graph, ids, peerVars>>

ScopeNext ==
  \/ EnterActiveClassScope
  \/ EnterActiveMemberScope
  \/ EnterActiveTypeParametersScope
  \/ EnterActiveTypeParametersScopeAppend
  \/ ExitScopeGuard

SpecScopes == InitRegions /\ [][ScopeNext]_vars

\* BuildTargetEntry();
DoBuildTargetEntry ==
  LET built == BuildTargetEntry(builder) IN
    /\ ~unwinding
    /\ Op
    /\ builder' = built.b
    /\ rlast' = [NoRegionOp EXCEPT !.op = "BuildTargetEntry", !.pre = builder,
                                   !.result = built.result]
    /\ ids' = [ids EXCEPT !.blocks = Append(@, built.result)]
    /\ UNCHANGED <<objs, hist, joins, unwinding, fatal, fragVars, restVars>>

\* BuildJoinEntry();
DoBuildJoinEntry ==
  LET built == BuildJoinEntryHere(builder, objs, joins) IN
    /\ ~unwinding
    /\ Op
    /\ builder' = built.b
    /\ joins' = built.joins
    /\ rlast' = [NoRegionOp EXCEPT !.op = "BuildJoinEntry", !.pre = builder,
                                   !.result = built.result]
    /\ ids' = [ids EXCEPT !.blocks = Append(@, built.result)]
    /\ UNCHANGED <<objs, hist, unwinding, fatal, fragVars, restVars>>

\* Blocks built directly and as the lazily materialized destinations of
\* switch cases and breaks.
BlockNext ==
  \/ DoBuildTargetEntry
  \/ DoBuildJoinEntry
  \/ ConstructSwitchBlock
  \/ ConstructBreakableBlock
  \/ DestroySwitchBlock
  \/ DestroyBreakableBlock
  \/ DoDestination
  \/ DoBreakDestination

SpecBlocks == InitBlocks /\ [][BlockNext]_vars

\* GetNextDeoptId();
DoGetNextDeoptId ==
  LET next == GetNextDeoptId(builder, threads) IN
    /\ ~unwinding
    /\ Op
    /\ builder' = next.b
    /\ threads' = next.threads
    /\ rlast' = [NoRegionOp EXCEPT !.op = "GetNextDeoptId", !.pre = builder,
                                   !.result = next.result]
    /\ ids' = [ids EXCEPT !.deopts = Append(@, next.result)]
    /\ UNCHANGED <<objs, hist, joins, unwinding, fatal, fragVars, scopeVars, peer>>

\* The second translator builds a target entry.
PeerBuildTargetEntry ==
  LET built == BuildTargetEntry(peer.builder) IN
    /\ Op
    /\ peer' = [peer EXCEPT !.builder = built.b,
                            !.ids.blocks = Append(@, built.result)]
    /\ UNCHANGED <<fatal, fragVars, regionVars, scopeVars, ids, threads>>

\* The second translator asks for a deopt id.
PeerGetNextDeoptId ==
  LET next == GetNextDeoptId(peer.builder, threads) IN
    /\ Op
    /\ peer' = [peer EXCEPT !.builder = next.b,
                            !.ids.deopts = Append(@, next.result)]
    /\ threads' = next.threads
    /\ UNCHANGED <<fatal, fragVars, regionVars, scopeVars, ids>>

\* The second translator enters an exception-protected region.
PeerConstructTryCatchBlock ==
  \E explicit \in BOOLEAN :
    LET fresh == AllocateTryIndex(peer.builder)
        pre == IF explicit THEN fresh.b ELSE peer.builder
        block == TryCatchBlock(pre, IF explicit THEN fresh.result ELSE -1)
    IN /\ Op
       /\ peer' = [peer EXCEPT
                     !.builder = SetChainHead(block.b, "try_catch", Len(peer.objs) + 1),
                     !.objs = Append(@, block.obj),
                     !.ids.tries = Append(@, IF explicit THEN fresh.result
                                             ELSE block.obj.try_index_),
                     !.ids.regions = Append(@, block.obj.try_index_)]
       /\ UNCHANGED <<fatal, fragVars, regionVars, scopeVars, ids, threads>>

\* The second translator leaves its innermost exception-protected region.
PeerDestroyTryCatchBlock ==
  /\ Len(peer.objs) > 0
  /\ Op
  /\ peer' = [peer EXCEPT
                !.builder = Destructor(peer.builder, peer.objs[Len(peer.objs)]),
                !.objs = SubSeq(@, 1, Len(@) - 1)]
  /\ UNCHANGED <<fatal, fragVars, regionVars, scopeVars, ids, threads>>

\* Two translators whose operations interleave.
InstancesNext ==
  \/ DoBuildTargetEntry
  \/ DoGetNextDeoptId
  \/ ConstructTryCatchBlock
  \/ DestroyTryCatchBlock
  \/ PeerBuildTargetEntry
  \/ PeerGetNextDeoptId
  \/ PeerConstructTryCatchBlock
  \/ PeerDestroyTryCatchBlock

SpecInstances == InitInstances /\ [][InstancesNext]_vars

\* The translation enters the body of a try statement: try_depth_++.
IncTryDepth ==
  /\ ~unwinding
  /\ Op
  /\ builder' = [builder EXCEPT !.try_depth_ = @ + 1]
  /\ rlast' = [NoRegionOp EXCEPT !.op = "try_depth", !.pre = builder]
  /\ UNCHANGED <<objs, hist, joins, unwinding, fatal, fragVars, otherVars>>

\* The translation leaves the body of a try statement: try_depth_--.
DecTryDepth ==
  /\ ~unwinding
  /\ builder.try_depth_ > 0
  /\ Op
  /\ builder' = [builder EXCEPT !.try_depth_ = @ - 1]
  /\ rlast' = [NoRegionOp EXCEPT !.op = "try_depth", !.pre = builder]
  /\ UNCHANGED <<objs, hist, joins, unwinding, fatal, fragVars, otherVars>>

\* Try statements with finally clauses, in exception-protected regions and in
\* scopes with captured variables.
FinallyNext ==
  \/ ConstructTryCatchBlock
  \/ ConstructTryFinallyBlock
  \/ DestroyTryCatchBlock
  \/ DestroyTryFinallyBlock
  \/ EnterContext
  \/ ExitContext
  \/ IncTryDepth
  \/ DecTryDepth

SpecFinally == InitRegions /\ [][FinallyNext]_vars

\* this->HadJumper(case_num), asked for the cases of a live switch block and
\* for the case number one past them.
DoHadJumper ==
  \E this \in LiveOfKind("switch") :
    \E case_num \in 0 .. objs[this].case_count_ :
      /\ ~unwinding
      /\ Op
      /\ rlast' = [NoRegionOp EXCEPT
                     !.op = "HadJumper", !.kind = "switch", !.this = this,
                     !.arg = case_num, !.case_num = case_num,
                     !.had = SwitchHadJumper(objs, this, case_num),
                     !.pre = builder, !.frame = <<objs, joins>>]
      /\ UNCHANGED <<builder, objs, hist, joins, unwinding, fatal, fragVars,
                     otherVars>>

\* Switch statements nested in each other, the jumps to their cases and the
\* question whether a case had a jumper.
JumperNext ==
  \/ ConstructSwitchBlock
  \/ DestroySwitchBlock
  \/ DoDestination
  \/ DoDestinationDirect
  \/ DoHadJumper

SpecJumpers == InitRegions /\ [][JumperNext]_vars

\* The translation enters a catch clause: ++catch_depth_; then
\* CatchBlock block(this, CurrentException(), CurrentStackTrace(), try_index);
\* The scope binding result has a slot for every nesting level of the function.
EnterCatch ==
  /\ builder.catch_depth_ \in CatchLevels
  /\ \E catch_try_index \in TryIndexInputs :
       LET b == [builder EXCEPT !.catch_depth_ = @ + 1] IN
         ConstructFrom(builder,
                       CatchBlock(b, CurrentException(b), CurrentStackTrace(b),
                                  catch_try_index),
                       b, catch_try_index, <<>>)

\* The translation leaves the catch clause: the catch block goes out of
\* scope, then --catch_depth_;
ExitCatch ==
  /\ ~unwinding
  /\ Len(objs) > 0
  /\ objs[Len(objs)].kind = "catch"
  /\ Op
  /\ builder' = [Destructor(builder, objs[Len(objs)]) EXCEPT !.catch_depth_ = @ - 1]
  /\ objs' = SubSeq(objs, 1, Len(objs) - 1)
  /\ hist' = SubSeq(hist, 1, Len(hist) - 1)
  /\ rlast' = [NoRegionOp EXCEPT !.op = "destroy", !.kind = "catch",
                                 !.this = Len(objs), !.pre = builder,
                                 !.frame = hist[Len(hist)]]
  /\ UNCHANGED <<joins, unwinding, fatal, fragVars, otherVars>>

\* Try statements and their catch clauses, nested in each other.
CatchNext ==
  \/ ConstructTryCatchBlock
  \/ DestroyTryCatchBlock
  \/ EnterCatch
  \/ ExitCatch

SpecCatch == InitRegions /\ [][CatchNext]_vars

\* Switch statements and breakable blocks around and inside exception-
\* protected regions, and the jumps to their destinations.
JoinTagNext ==
  \/ ConstructTryCatchBlock
  \/ ConstructSwitchBlock
  \/ ConstructBreakableBlock
  \/ DestroyTryCatchBlock
  \/ DestroySwitchBlock
  \/ DestroyBreakableBlock
  \/ DoDestinationDirect
  \/ DoBreakDestination

SpecJoinTags == InitRegions /\ [][JoinTagNext]_vars

\* The five trackers are constructed and destroyed in properly nested order
\* in scopes with captured variables.
StackNext ==
  \/ ConstructSwitchBlock
  \/ ConstructTryCatchBlock
  \/ ConstructTryFinallyBlock
  \/ ConstructBreakableBlock
  \/ ConstructCatchBlock
  \/ DestroySwitchBlock
  \/ DestroyTryCatchBlock
  \/ DestroyTryFinallyBlock
  \/ DestroyBreakableBlock
  \/ DestroyCatchBlock
  \/ EnterContext

SpecStacks == InitRegions /\ [][StackNext]_vars

\* this->BreakDestination(label_index, &outer_finally, &context_depth); on any
\* live breakable block, for the label of a live breakable block.
DoBreakDestinationOn ==
  /\ ~unwinding
  /\ \E this \in LiveOfKind("breakable") :
       \E label_index \in 0 .. objs[builder.breakable_block_].index_ :
         LET d == BreakDestination(builder, objs, joins, label_index) IN
           /\ Op
           /\ builder' = d.ensured.b
           /\ objs' = d.ensured.os
           /\ joins' = d.ensured.joins
           /\ hist' = Requested(hist, d.block, 0, d)
           /\ rlast' = [NoRegionOp EXCEPT
                          !.op = "BreakDestination", !.kind = "breakable",
                          !.this = this, !.arg = label_index,
                          !.out = TRUE, !.block = d.block,
                          !.result = d.ensured.result,
                          !.outer_finally = d.outer_finally,
                          !.context_depth = d.context_depth,
                          !.pre = builder,
                          !.cached = destination(objs, d.block),
                          !.emitted = JumpFragment(builder, objs, d.outer_finally,
                                                   d.ensured.result)]
           /\ ids' = [ids EXCEPT !.blocks =
                        IF destination(objs, d.block) = NULL
                        THEN Append(@, d.ensured.result) ELSE @]
           /\ UNCHANGED <<unwinding, fatal, fragVars, restVars>>

\* Loops and labeled blocks nested in each other and in switch statements,
\* and the breaks out of them.
LabelNext ==
  \/ ConstructBreakableBlock
  \/ ConstructSwitchBlock
  \/ DestroyBreakableBlock
  \/ DestroySwitchBlock
  \/ DoBreakDestinationOn

SpecLabels == InitRegions /\ [][LabelNext]_vars

\* The five trackers are constructed and destroyed in properly nested order,
\* and an error may unwind them.
TrackerNext ==
  \/ ConstructSwitchBlock
  \/ ConstructTryCatchBlock
  \/ ConstructTryFinallyBlock
  \/ ConstructBreakableBlock
  \/ ConstructCatchBlock
  \/ DestroySwitchBlock
  \/ DestroyTryCatchBlock
  \/ DestroyTryFinallyBlock
  \/ DestroyBreakableBlock
  \/ DestroyCatchBlock
  \/ RaiseError

SpecTrackers == InitRegions /\ [][TrackerNext]_vars

\* Switch statements nested in each other, in finally regions and in scopes
\* with captured variables, and the jumps to their cases.
SwitchNext ==
  \/ ConstructSwitchBlock
  \/ ConstructTryFinallyBlock
  \/ DestroySwitchBlock
  \/ DestroyTryFinallyBlock
  \/ EnterContext
  \/ ExitContext
  \/ DoDestination
  \/ DoDestinationDirect

SpecSwitch == InitRegions /\ [][SwitchNext]_vars

RegionNext == TrackerNext \/ SwitchNext \/ BreakNext \/ ExitNext \/ GeneratorNext \/ JumpNext \/ ScopeNext \/ BlockNext \/ InstancesNext \/ FinallyNext \/ JumperNext \/ CatchNext \/ JoinTagNext \/ StackNext \/ LabelNext

\* ------------------------------------------------ properties of the fragment algebra
\* The fragments a state holds.
HeldFragments == {frags[s] : s \in Slots} \cup {acc}

Concatenated == last.op = "concat"
Extended == last.op \in {"concat", "append"}

\* The edge the last operation had to make: left operand's exit to right operand's entry.
WiredEdge == <<last.a.current, last.b.entry>>

AssocLeft(g, a, b, c) ==
  LET ab == Plus(g, a, b) IN Plus(ab.g, ab.f, c)

AssocRight(g, a, b, c) ==
  LET bc == Plus(g, b, c) IN Plus(bc.g, a, bc.f)

\* The instructions of a fragment: those reachable from its entry, and its exit.
FragmentNodes(g, f) == ReachableNodes(g, f) \cup ({f.current} \ {NULL})

\* No instruction belongs to two of the three fragments.
DisjointOperands(g, a, b, c) ==
  /\ FragmentNodes(g, a) \cap FragmentNodes(g, b) = {}
  /\ FragmentNodes(g, a) \cap FragmentNodes(g, c) = {}
  /\ FragmentNodes(g, b) \cap FragmentNodes(g, c) = {}

SameReachable(l, r) ==
  LET ln == ReachableNodes(l.g, l.f)
      rn == ReachableNodes(r.g, r.f)
  IN /\ l.f = r.f
     /\ ln = rn
     /\ {e \in l.g : e[1] \in ln} = {e \in r.g : e[1] \in rn}
     /\ {e \in l.g : e[1] \in ln} = ReachableEdges(l.g, l.f)

C7_ClosedAlwaysCloses ==
  (last.op = "closed") =>
    /\ last.r.entry = last.a.entry
    /\ last.r.current = NULL
    /\ is_closed(last.r)
    /\ graph = last.g

\* C7 as amended: for every fragment f with an entry, close(f) returns a
\* closed fragment with f's entry and a null current, and leaves the graph
\* alone.
C7_ClosedCloses ==
  (last.op = "closed" /\ last.a.entry # NULL) =>
    /\ last.r.entry = last.a.entry
    /\ last.r.current = NULL
    /\ is_closed(last.r)
    /\ ~is_open(last.r)
    /\ acc = last.r
    /\ graph = last.g

C7_Witness ==
  /\ last.op = "closed"
  /\ last.a.entry # NULL
  /\ last.a.current # NULL
  /\ is_open(last.a)
  /\ is_closed(acc)
  /\ graph # {}

Kinds == {"try_catch", "try_finally", "switch", "breakable", "catch"}

\* The innermost live tracker of a kind below position i, NULL when there is none.
Enclosing(os, kind, i) ==
  LET below == {j \in 1..(i - 1) : os[j].kind = kind}
  IN IF below = {} THEN NULL ELSE CHOOSE j \in below : \A k \in below : k <= j

\* C1: for each of the five kinds, constructing a tracker records the
\* builder's current top of that kind as its outer link and makes the new
\* tracker the top; destroying it sets the top back to that outer link; so
\* after a properly nested sequence the top of every kind is the tracker that
\* was on top before the sequence started.
C1_ChainsRestored ==
  /\ \A i \in 1..Len(objs) : objs[i].outer_ = Enclosing(objs, objs[i].kind, i)
  /\ \A kind \in Kinds : Tops(builder)[kind] = Enclosing(objs, kind, Len(objs) + 1)
  /\ (rlast.op = "construct") =>
       /\ rlast.this = Len(objs)
       /\ objs[rlast.this].outer_ = Tops(rlast.pre)[rlast.kind]
       /\ Tops(builder)[rlast.kind] = rlast.this
  /\ (rlast.op = "destroy") =>
       /\ Tops(builder)[rlast.kind] = Tops(rlast.frame.pre)[rlast.kind]
       /\ Tops(builder) = Tops(rlast.frame.pre)

\* A tracker nested in another of its kind was destroyed and the enclosing
\* one is the top again.
C1_Witness ==
  /\ rlast.op = "destroy"
  /\ ~unwinding
  /\ Tops(builder)[rlast.kind] # NULL
  /\ Tops(builder)[rlast.kind] = Enclosing(objs, rlast.kind, Len(objs) + 1)
  /\ Tops(rlast.pre)[rlast.kind] = Len(objs) + 1

\* A tracker is destroyed by an error that was raised right after it was
\* pushed: the builder is as the constructor left it.
PoppedByErrorAfterPush ==
  /\ rlast.op = "destroy"
  /\ unwinding
  /\ rlast.pre = rlast.frame.post

\* The popped tracker was an exception-protected region that allocated its
\* try index itself.
PoppedAllocatedTryIndex ==
  rlast.kind = "try_catch" /\ rlast.frame.arg = -1

\* C2 as stated: if a tracker of any kind is pushed, an error then unwinds
\* the translation and the tracker is destroyed, the builder state is bit for
\* bit the state it had before the push.
C2_UnwindRestoresAll ==
  PoppedByErrorAfterPush => builder = rlast.frame.pre

\* C2 as amended: if a tracker of any kind is pushed, an error then unwinds
\* the translation and the tracker is destroyed, the builder state is the
\* state it had before the push, except that next_used_try_index_ stays
\* advanced by one when the tracker was an exception-protected region that
\* allocated its try index.
C2_UnwindRestores ==
  PoppedByErrorAfterPush =>
    /\ Tops(builder) = Tops(rlast.frame.pre)
    /\ builder = [rlast.frame.pre EXCEPT !.next_used_try_index_ =
                    IF PoppedAllocatedTryIndex THEN @ + 1 ELSE @]

C2_Witness ==
  /\ PoppedByErrorAfterPush
  /\ PoppedAllocatedTryIndex
  /\ Len(objs) > 0
  /\ builder.try_catch_block_ # NULL
  /\ builder.next_used_try_index_ = rlast.frame.pre.next_used_try_index_ + 1

IsRequest == rlast.op \in {"Destination", "DestinationDirect"}

\* C9: every request for the destination of a case of a live switch region,
\* by Destination or DestinationDirect, returns the same join node; it is
\* allocated on the first request and at most one join node is ever allocated
\* for a (switch region, case number).
C9_SameJoin ==
  /\ \A i \in LiveOfKind("switch") :
       /\ DOMAIN objs[i].destinations_ = DOMAIN hist[i].first
       /\ \A c \in DOMAIN hist[i].first :
            /\ objs[i].destinations_[c] = hist[i].first[c]
            /\ hist[i].built[c] = 1
            /\ hist[i].first[c] \in DOMAIN joins
  /\ \A i, j \in LiveOfKind("switch") :
       \A c \in DOMAIN objs[i].destinations_, d \in DOMAIN objs[j].destinations_ :
         (objs[i].destinations_[c] = objs[j].destinations_[d]) => (i = j /\ c = d)
  /\ IsRequest =>
       /\ rlast.result = hist[rlast.block].first[rlast.case_num]
       /\ (rlast.cached = NULL) =>
            /\ rlast.result \notin 0..rlast.pre.last_used_block_id_
            /\ builder.last_used_block_id_ = rlast.pre.last_used_block_id_ + 1
       /\ (rlast.cached # NULL) =>
            /\ rlast.result = rlast.cached
            /\ builder = rlast.pre

\* The destination of a case of an outer switch region, materialized before,
\* was requested again through the inner region and is the same join node.
C9_Witness ==
  /\ rlast.op = "Destination"
  /\ rlast.block # rlast.this
  /\ rlast.cached # NULL
  /\ rlast.result = rlast.cached
  /\ builder.last_used_block_id_ > 1

\* Sum of the case counts of the switch regions enclosing position i.
RECURSIVE SumCaseCounts(_, _)
SumCaseCounts(os, i) ==
  IF i <= 1 THEN 0
  ELSE SumCaseCounts(os, i - 1) +
       (IF os[i - 1].kind = "switch" THEN os[i - 1].case_count_ ELSE 0)

\* Absolute case number t is one of the cases of switch region B.
InRange(os, B, t) ==
  os[B].depth_ <= t /\ t < os[B].depth_ + os[B].case_count_

\* C10: in a chain of nested switch regions, each region's depth offset is
\* the sum of the case counts of the regions enclosing it, and Destination(t)
\* on the innermost region, with t in the range of a live region B, returns
\* B's join node for relative case t - depth(B), with the finally region and
\* context depth B recorded when it was opened.
C10_DepthOffsets ==
  /\ \A i \in LiveOfKind("switch") :
       /\ objs[i].depth_ = SumCaseCounts(objs, i)
       /\ objs[i].outer_finally_ = hist[i].pre.try_finally_block_
       /\ objs[i].context_depth_ = hist[i].pre.context_depth_
  /\ (rlast.op = "Destination" /\ rlast.this = builder.switch_block_) =>
       \A B \in LiveOfKind("switch") :
         InRange(objs, B, rlast.arg) =>
           /\ rlast.block = B
           /\ rlast.case_num = rlast.arg - objs[B].depth_
           /\ rlast.result # NULL
           /\ rlast.result = Lookup(objs[B].destinations_, rlast.arg - objs[B].depth_)
           /\ rlast.out =>
                /\ rlast.outer_finally = hist[B].pre.try_finally_block_
                /\ rlast.context_depth = hist[B].pre.context_depth_

\* A jump from the innermost of three nested switch regions went to a case of
\* the middle one, which lies in a finally region.
C10_Witness ==
  /\ rlast.op = "Destination"
  /\ rlast.out
  /\ rlast.this = builder.switch_block_
  /\ rlast.block # rlast.this
  /\ InRange(objs, rlast.block, rlast.arg)
  /\ objs[rlast.block].depth_ > 0
  /\ rlast.case_num = rlast.arg - objs[rlast.block].depth_
  /\ rlast.outer_finally # NULL
  /\ rlast.result # NULL

\* ------------------------------------------------ properties of breaks and exits
\* C11: BreakDestination(label_index) walks outward from the innermost live
\* breakable region to the region whose index is label_index and returns that
\* region's destination join node, with the finally region and the context
\* depth in effect when that region was constructed, not those at the break.
C11_BreakWalk ==
  /\ \A i \in LiveOfKind("breakable") :
       /\ objs[i].index_ = Cardinality({j \in LiveOfKind("breakable") : j < i})
       /\ objs[i].outer_finally_ = hist[i].pre.try_finally_block_
       /\ objs[i].context_depth_ = hist[i].pre.context_depth_
  /\ (rlast.op = "BreakDestination") =>
       /\ \E B \in LiveOfKind("breakable") : objs[B].index_ = rlast.arg
       /\ \A B \in LiveOfKind("breakable") :
            (objs[B].index_ = rlast.arg) =>
              /\ rlast.block = B
              /\ rlast.result # NULL
              /\ rlast.result = destination(objs, B)
              /\ rlast.outer_finally = hist[B].pre.try_finally_block_
              /\ rlast.outer_finally = Enclosing(objs, "try_finally", B)
              /\ rlast.context_depth = hist[B].pre.context_depth_

\* A break out of an inner breakable region, a finally region and a scope
\* with captured variables went to the outer breakable region: the finally
\* region and context depth returned are not those at the break.
C11_Witness ==
  /\ rlast.op = "BreakDestination"
  /\ rlast.block # builder.breakable_block_
  /\ objs[rlast.block].index_ = rlast.arg
  /\ rlast.outer_finally # builder.try_finally_block_
  /\ rlast.context_depth # builder.context_depth_
  /\ rlast.result = destination(objs, rlast.block)

\* C12: a breakable region has no destination and HadJumper() is false from
\* its construction until the first BreakDestination that resolves to it,
\* which allocates the join node; from then on HadJumper() is true and every
\* later BreakDestination resolving to it returns that node and allocates no
\* block: at most one join node over the region's lifetime.
C12_OneBreakJoin ==
  /\ \A i \in LiveOfKind("breakable") :
       /\ BreakableHadJumper(objs, i) <=> (0 \in DOMAIN hist[i].first)
       /\ ~BreakableHadJumper(objs, i) =>
            /\ destination(objs, i) = NULL
            /\ hist[i].built = <<>>
       /\ BreakableHadJumper(objs, i) =>
            /\ destination(objs, i) = hist[i].first[0]
            /\ hist[i].built[0] = 1
            /\ destination(objs, i) \in DOMAIN joins
  /\ \A i, j \in LiveOfKind("breakable") :
       (BreakableHadJumper(objs, i) /\ destination(objs, i) = destination(objs, j))
         => i = j
  /\ (rlast.op = "construct" /\ rlast.kind = "breakable") =>
       /\ ~BreakableHadJumper(objs, rlast.this)
       /\ destination(objs, rlast.this) = NULL
  /\ (rlast.op = "BreakDestination") =>
       /\ BreakableHadJumper(objs, rlast.block)
       /\ rlast.result = hist[rlast.block].first[0]
       /\ (rlast.cached = NULL) =>
            /\ rlast.result \notin 0..rlast.pre.last_used_block_id_
            /\ builder.last_used_block_id_ = rlast.pre.last_used_block_id_ + 1
       /\ (rlast.cached # NULL) =>
            /\ rlast.result = rlast.cached
            /\ builder = rlast.pre

\* A second break resolved to an outer breakable region that had a jumper:
\* it got the same join node, and an inner region still has none.
C12_Witness ==
  /\ rlast.op = "BreakDestination"
  /\ rlast.cached # NULL
  /\ rlast.result = rlast.cached
  /\ rlast.block # builder.breakable_block_
  /\ ~BreakableHadJumper(objs, builder.breakable_block_)
  /\ builder.last_used_block_id_ = 1

\* The result of a non-local exit: the last operation was a jump or a return
\* that names where it goes.
IsExit ==
  /\ rlast.op \in {"BreakDestination", "Destination", "DestinationDirect", "Return"}
  /\ rlast.out

\* The live finally regions between the exit site and the exit's target
\* region: those constructed after the target region, all of them for a return.
Crossed ==
  {i \in LiveOfKind("try_finally") :
     rlast.op = "Return" \/ i > rlast.block}

\* The finalizers of the regions S, innermost first, each with the context
\* depth and kernel offset the region was constructed with.
RECURSIVE FinalizersInnermostFirst(_)
FinalizersInnermostFirst(S) ==
  IF S = {} THEN <<>>
  ELSE LET m == CHOOSE i \in S : \A j \in S : j <= i IN
         <<[item |-> "finalizer",
            context_depth |-> hist[m].pre.context_depth_,
            kernel_offset |-> hist[m].arg]>>
         \o FinalizersInnermostFirst(S \ {m})

\* C13: for a non-local exit that crosses F live finally regions between the
\* exit site and its target, the emitted fragment has exactly F finalizer
\* translations, one per crossed region, innermost first, each at the
\* region's recorded context depth, and all of them before the jump to the
\* target join node.
C13_FinalizersCrossed ==
  IsExit =>
    LET F == Cardinality(Crossed) IN
      /\ Len(rlast.emitted) = F + 1
      /\ SubSeq(rlast.emitted, 1, F) = FinalizersInnermostFirst(Crossed)
      /\ \A k \in 1..F : rlast.emitted[k].item = "finalizer"
      /\ rlast.emitted[F + 1].item = IF rlast.op = "Return" THEN "return" ELSE "goto"
      /\ (rlast.op # "Return") => rlast.emitted[F + 1].kernel_offset = rlast.result
      /\ (rlast.op # "Return") => rlast.result # NULL

\* A break crossed two finally regions with different finalizers, out of a
\* target region that lies in a third one.
C13_Witness ==
  /\ rlast.op = "BreakDestination"
  /\ Cardinality(Crossed) = 2
  /\ rlast.outer_finally # NULL
  /\ Len(rlast.emitted) = 3
  /\ rlast.emitted[1].kernel_offset # rlast.emitted[2].kernel_offset
  /\ rlast.emitted[1].kernel_offset = objs[builder.try_finally_block_].finalizer_kernel_offset_

\* ------------------------------------------------ properties of the generator continuations
\* C14: each suspension point appends exactly one (resume entry, enclosing
\* try index) pair to the continuation list, in encounter order; at the end
\* of the translation a function without suspension points has no dispatch
\* block, and one with K suspension points has exactly one dispatch block
\* with exactly K resume edges, one per recorded pair, and the initial-entry edge.
C14_Continuations ==
  LET list == builder.yield_continuations_ IN
    /\ (rlast.op = "Yield") =>
         /\ list = Append(rlast.pre.yield_continuations_,
                          [entry |-> rlast.result, try_index |-> rlast.arg])
         /\ list[Len(list)].try_index =
              (IF LiveOfKind("try_catch") = {} THEN kInvalidTryIndex
               ELSE objs[Enclosing(objs, "try_catch", Len(objs) + 1)].try_index_)
    /\ \A i, j \in 1..Len(list) : (i < j) => (list[i].entry < list[j].entry)
    /\ ~flow_graph.built => flow_graph.dispatch = <<>>
    /\ flow_graph.built =>
         /\ (Len(list) = 0) => (Len(flow_graph.dispatch) = 0)
         /\ (Len(list) > 0) =>
              /\ Len(flow_graph.dispatch) = 1
              /\ flow_graph.dispatch[1].initial_entry
              /\ Len(flow_graph.dispatch[1].resume) = Len(list)
              /\ \A i \in 1..Len(list) :
                   /\ flow_graph.dispatch[1].resume[i].entry = list[i].entry
                   /\ flow_graph.dispatch[1].resume[i].try_index = list[i].try_index

\* A translation with two suspension points, one of them in an
\* exception-protected region, is finished and has its dispatch block.
C14_Witness ==
  /\ flow_graph.built
  /\ Len(builder.yield_continuations_) = 2
  /\ \E i \in 1..2 : builder.yield_continuations_[i].try_index # kInvalidTryIndex
  /\ \E i \in 1..2 : builder.yield_continuations_[i].try_index = kInvalidTryIndex
  /\ Len(flow_graph.dispatch) = 1
  /\ Len(flow_graph.dispatch[1].resume) = 2

\* A translation without a suspension point is finished and has no dispatch block.
C14_WitnessNone ==
  /\ flow_graph.built
  /\ Len(builder.yield_continuations_) = 0
  /\ flow_graph.dispatch = <<>>

\* ------------------------------------------------ properties of unresolved jumps
\* The last operation was a jump whose target no live region has: a break
\* label that is the index of no live breakable region, or a switch case
\* number outside the range of every live switch region.
UnresolvedJump ==
  \/ rlast.op = "BreakDestinationUnresolved"
  \/ /\ rlast.op = "Destination"
     /\ ~\E B \in LiveOfKind("switch") : InRange(objs, B, rlast.arg)

\* C15: a jump target that no enclosing region resolves ends in the fatal
\* failure state; no join node is returned and no destination is materialized.
C15_UnresolvedIsFatal ==
  UnresolvedJump =>
    /\ fatal
    /\ rlast.result = NULL
    /\ builder.last_used_block_id_ = rlast.pre.last_used_block_id_
    /\ DOMAIN joins = 1..rlast.pre.last_used_block_id_

\* What the switch walk does with a case number that no live region covers:
\* it stops at a region, the innermost one when the number is too large, and
\* materializes a destination for a case the region does not have.
C15_SwitchMaterializes ==
  (rlast.op = "Destination" /\ UnresolvedJump /\ rlast.cached = NULL) =>
    /\ ~fatal
    /\ rlast.result # NULL
    /\ rlast.case_num >= objs[rlast.block].case_count_
    /\ rlast.result = Lookup(objs[rlast.block].destinations_, rlast.case_num)
    /\ builder.last_used_block_id_ = rlast.pre.last_used_block_id_ + 1

\* ------------------------------------------------ properties of the active class
\* C16: after a properly nested sequence of ActiveClassScope, ActiveMemberScope
\* and ActiveTypeParametersScope entries and exits, the four fields of the
\* active class are what they were before the outermost guard was entered;
\* on entry ActiveClassScope changes klass only and ActiveMemberScope changes
\* member only.
C16_ScopesRestore ==
  /\ (guards = <<>>) => (active_class = ActiveClass)
  /\ (guards # <<>>) => (guards[1].pre = ActiveClass)
  /\ \A i \in 1..Len(guards) :
       guards[i].saved_ = guards[i].pre
  /\ \A i \in 1..(Len(guards) - 1) :
       /\ guards[i + 1].pre.klass =
            (IF guards[i].kind = "class" THEN guards[i + 1].pre.klass
             ELSE guards[i].pre.klass)
       /\ guards[i + 1].pre.member =
            (IF guards[i].kind = "member" THEN guards[i + 1].pre.member
             ELSE guards[i].pre.member)
  /\ (alast.op = "exit") =>
       /\ active_class.klass = alast.pre.klass
       /\ active_class.member = alast.pre.member
       /\ active_class.enclosing = alast.pre.enclosing
       /\ active_class.local_type_parameters = alast.pre.local_type_parameters
  /\ (alast.op = "enter" /\ alast.kind = "class") =>
       active_class = [alast.pre EXCEPT !.klass = alast.arg]
  /\ (alast.op = "enter" /\ alast.kind = "member") =>
       active_class = [alast.pre EXCEPT !.member = alast.arg]

\* Out of a class scope, a member scope and a type parameters scope, nested
\* in this order, the two inner guards were left: the active class has the
\* class of the class scope and nothing else.
C16_Witness ==
  /\ alast.op = "exit"
  /\ alast.kind = "member"
  /\ Len(guards) = 1
  /\ guards[1].kind = "class"
  /\ active_class.klass # NULL
  /\ active_class.member = NULL
  /\ active_class.enclosing = NULL
  /\ active_class.local_type_parameters = <<>>

\* ------------------------------------------------ properties of the id counters
\* The destination join nodes of the live switch and breakable regions.
LiveDestinations ==
  UNION {{objs[i].destinations_[c] : c \in DOMAIN objs[i].destinations_} :
           i \in LiveOfKind("switch")}
  \cup ({objs[i].destination_ : i \in LiveOfKind("breakable")} \ {NULL})

\* C17: every id AllocateBlockId returns is strictly greater than the initial
\* last_used_block_id and than every id returned before by the same builder,
\* so no two blocks of a translation, target entries or join entries, the
\* lazily materialized switch and break destinations included, share an id.
C17_BlockIdsMonotonic ==
  /\ \A i \in 1..Len(ids.blocks) :
       /\ ids.blocks[i] > ids.base
       /\ ids.blocks[i] <= builder.last_used_block_id_
  /\ \A i, j \in 1..Len(ids.blocks) :
       (i < j) => (ids.blocks[i] < ids.blocks[j])
  /\ builder.last_used_block_id_ = ids.base + Len(ids.blocks)
  /\ DOMAIN joins \subseteq {ids.blocks[i] : i \in 1..Len(ids.blocks)}
  /\ LiveDestinations \subseteq DOMAIN joins
  /\ (rlast.op \in {"BuildTargetEntry", "BuildJoinEntry"}) =>
       /\ rlast.result > rlast.pre.last_used_block_id_
       /\ rlast.result = ids.blocks[Len(ids.blocks)]

\* A builder constructed with last_used_block_id 2 has built a target entry,
\* a switch case destination and then a break destination with ids 3, 4, 5.
C17_Witness ==
  /\ ids.base = 2
  /\ Len(ids.blocks) = 3
  /\ ids.blocks[1] \notin DOMAIN joins
  /\ \E i \in LiveOfKind("switch") :
       \E c \in DOMAIN objs[i].destinations_ :
         objs[i].destinations_[c] = ids.blocks[2]
  /\ rlast.op = "BreakDestination"
  /\ rlast.result = ids.blocks[3]
  /\ ids.blocks[3] = 5

ConstructedTryIndex(i) ==
  IF hist[i].arg = -1 THEN hist[i].pre.next_used_try_index_ ELSE hist[i].arg

\* C20: after a properly nested sequence of constructions and destructions
\* of exception-protected regions, CurrentTryIndex() is the try index of the
\* innermost live exception-protected region, and the invalid try index when
\* none is live.
C20_CurrentTryIndex ==
  LET innermost == Enclosing(objs, "try_catch", Len(objs) + 1) IN
    /\ (innermost = NULL) => (CurrentTryIndex(builder, objs) = kInvalidTryIndex)
    /\ (innermost # NULL) =>
         /\ CurrentTryIndex(builder, objs) = ConstructedTryIndex(innermost)
         /\ CurrentTryIndex(builder, objs) # kInvalidTryIndex
         /\ CurrentTryIndex(builder, objs) = objs[innermost].try_index_
    /\ \A i \in 1..Len(objs) :
         (objs[i].kind \in {"switch", "try_finally", "breakable"}) =>
           objs[i].try_index_ =
             (IF Enclosing(objs, "try_catch", i) = NULL THEN kInvalidTryIndex
              ELSE ConstructedTryIndex(Enclosing(objs, "try_catch", i)))

\* The inner of two nested exception-protected regions was destroyed: the
\* current try index is the outer region's again, which is not the last one
\* allocated.
C20_Witness ==
  /\ rlast.op = "destroy"
  /\ rlast.kind = "try_catch"
  /\ builder.try_catch_block_ # NULL
  /\ CurrentTryIndex(builder, objs) = 0
  /\ builder.next_used_try_index_ = 2

\* All exception-protected regions were destroyed: there is no current try index.
C20_WitnessNone ==
  /\ rlast.op = "destroy"
  /\ rlast.kind = "try_catch"
  /\ builder.next_used_try_index_ > 0
  /\ CurrentTryIndex(builder, objs) = kInvalidTryIndex

\* ------------------------------------------------ properties of two translators
\* The n-th element of a sequence of ids is first + n - 1.
CountsFrom(seq, first) == \A n \in 1..Len(seq) : seq[n] = first + n - 1

\* The block ids and try indices a translator obtains when it runs alone.
BlockAndTryIdsAsAlone(got) ==
  /\ CountsFrom(got.blocks, got.base + 1)
  /\ CountsFrom(got.tries, 0)

\* The region stack of a translator that has only entered and left
\* exception-protected regions: its own regions, chained innermost to outermost.
OwnRegionStack(b, os, got) ==
  /\ b.try_catch_block_ = (IF os = <<>> THEN NULL ELSE Len(os))
  /\ \A i \in 1..Len(os) :
       /\ os[i].kind = "try_catch"
       /\ os[i].outer_ = i - 1
       /\ \E k \in 1..Len(got.regions) : got.regions[k] = os[i].try_index_
  /\ \A i, j \in 1..Len(os) : (i < j) => (os[i].try_index_ < os[j].try_index_)
  /\ Len(os) <= Len(got.regions)

\* C19 as stated: for every interleaving of the operations of two
\* translators, the block ids, try indices and deopt ids each one obtains are
\* those it obtains when it runs alone, and neither region stack is changed
\* by the other translator.
C19_CountersPerTranslationAll ==
  /\ BlockAndTryIdsAsAlone(ids)
  /\ BlockAndTryIdsAsAlone(peer.ids)
  /\ CountsFrom(ids.deopts, 0)
  /\ CountsFrom(peer.ids.deopts, 0)
  /\ OwnRegionStack(builder, objs, ids)
  /\ OwnRegionStack(peer.builder, peer.objs, peer.ids)

\* C19 as amended: for every interleaving, the block ids and try indices each
\* translator obtains are those it obtains when it runs alone, and neither
\* region stack is changed by the other translator; the deopt ids come from
\* the translator's thread: they are those of a run alone when the two
\* translators are on different threads, and on one thread the two draw from
\* one counter, each id going to one of them, in increasing order.
C19_CountersPerTranslation ==
  LET mine == ids.deopts
      theirs == peer.ids.deopts
  IN /\ BlockAndTryIdsAsAlone(ids)
     /\ BlockAndTryIdsAsAlone(peer.ids)
     /\ OwnRegionStack(builder, objs, ids)
     /\ OwnRegionStack(peer.builder, peer.objs, peer.ids)
     /\ (builder.thread_ # peer.builder.thread_) =>
          /\ CountsFrom(mine, 0)
          /\ CountsFrom(theirs, 0)
          /\ threads[builder.thread_].deopt_id_ = Len(mine)
          /\ threads[peer.builder.thread_].deopt_id_ = Len(theirs)
     /\ (builder.thread_ = peer.builder.thread_) =>
          /\ \A i, j \in 1..Len(mine) : (i < j) => (mine[i] < mine[j])
          /\ \A i, j \in 1..Len(theirs) : (i < j) => (theirs[i] < theirs[j])
          /\ {mine[i] : i \in 1..Len(mine)} \cap {theirs[i] : i \in 1..Len(theirs)} = {}
          /\ {mine[i] : i \in 1..Len(mine)} \cup {theirs[i] : i \in 1..Len(theirs)}
               = 0 .. (threads[builder.thread_].deopt_id_ - 1)
     /\ builder.context_level_array_ =
          [k \in 1..(2 * Len(mine)) |->
             IF k % 2 = 1 THEN mine[(k + 1) \div 2] ELSE 0]

\* Two translators on one thread have taken deopt ids in turn, each has built
\* a block, and one is in an exception-protected region.
C19_Witness ==
  /\ builder.thread_ = peer.builder.thread_
  /\ ids.deopts = <<0>>
  /\ peer.ids.deopts = <<1>>
  /\ ids.blocks = <<1>>
  /\ peer.ids.blocks = <<3>>
  /\ peer.ids.tries = <<0>>
  /\ Len(peer.objs) = 1
  /\ objs = <<>>

\* Two translators on two threads have each taken two deopt ids, the same ones.
C19_WitnessTwoThreads ==
  /\ builder.thread_ # peer.builder.thread_
  /\ ids.deopts = <<0, 1>>
  /\ peer.ids.deopts = <<0, 1>>

\* ------------------------------------------------ properties of what the regions record
\* The try index in effect where the tracker at position i was constructed:
\* that of the innermost exception-protected region around it.
TryIndexAround(i) ==
  IF Enclosing(objs, "try_catch", i) = NULL THEN kInvalidTryIndex
  ELSE ConstructedTryIndex(Enclosing(objs, "try_catch", i))

\* C21 as stated: a finally region records the context depth and the try
\* depth the builder has at its construction, and CurrentTryIndex() at that
\* moment, and the recorded values do not change while the region is live.
C21_FinallyRecordsDepths ==
  \A i \in LiveOfKind("try_finally") :
    /\ objs[i].context_depth_ = hist[i].pre.context_depth_
    /\ objs[i].try_depth_ = hist[i].pre.try_depth_
    /\ objs[i].try_index_ = TryIndexAround(i)

\* C21 as amended: a finally region records the context depth the builder has
\* at its construction, the builder's try depth at that moment less one, and
\* CurrentTryIndex() at that moment, and the recorded values do not change
\* while the region is live.
C21_FinallyRecords ==
  \A i \in LiveOfKind("try_finally") :
    /\ objs[i].context_depth_ = hist[i].pre.context_depth_
    /\ objs[i].try_depth_ = hist[i].pre.try_depth_ - 1
    /\ objs[i].try_index_ = TryIndexAround(i)
    /\ objs[i].try_index_ = CurrentTryIndex(hist[i].pre, objs)
    /\ objs[i].finalizer_kernel_offset_ = hist[i].arg

\* A finally region constructed at context depth 1 and try depth 1 inside an
\* exception-protected region holds depth 1, try depth 0 and try index 0
\* after the builder's context depth has moved on.
C21_Witness ==
  /\ LiveOfKind("try_finally") # {}
  /\ \A i \in LiveOfKind("try_finally") :
       /\ objs[i].context_depth_ = 1
       /\ objs[i].try_depth_ = 0
       /\ objs[i].try_index_ = 0
  /\ builder.context_depth_ = 2
  /\ builder.try_depth_ = 1

\* C22: for every live switch region and case number c, HadJumper(c) is true
\* exactly when a destination for case c of that region has been requested
\* since the region was constructed, and a call of HadJumper leaves the
\* destination maps, the join nodes and the builder as they were.
C22_HadJumper ==
  /\ \A i \in LiveOfKind("switch") :
       \A case_num \in 0 .. objs[i].case_count_ :
         SwitchHadJumper(objs, i, case_num) <=> case_num \in DOMAIN hist[i].first
  /\ rlast.op = "HadJumper" =>
       /\ rlast.had <=> rlast.case_num \in DOMAIN hist[rlast.this].first
       /\ rlast.frame = <<objs, joins>>
       /\ rlast.pre = builder

\* HadJumper has just answered TRUE for a case of a switch region of which
\* another case has had no jumper.
C22_Witness ==
  /\ rlast.op = "HadJumper"
  /\ rlast.had
  /\ \E case_num \in 0 .. (objs[rlast.this].case_count_ - 1) :
       ~SwitchHadJumper(objs, rlast.this, case_num)

\* HadJumper has just answered FALSE for a case of a switch region of which
\* another case has had a jumper.
C22_WitnessNone ==
  /\ rlast.op = "HadJumper"
  /\ ~rlast.had
  /\ DOMAIN objs[rlast.this].destinations_ # {}

\* The number of live catch regions around the tracker at position i.
CatchesAround(i) == Cardinality({j \in LiveOfKind("catch") : j < i})

\* C23: CurrentException() and CurrentStackTrace() are the slots at index
\* catch_depth - 1 of the per-level arrays, an index of the arrays only when
\* catch_depth >= 1, and catch clauses nested at different levels are bound
\* to different slots.
C23_CatchSlots ==
  /\ builder.catch_depth_ = Cardinality(LiveOfKind("catch"))
  /\ (builder.catch_depth_ - 1) \in DOMAIN exception_variables =>
       /\ builder.catch_depth_ >= 1
       /\ CurrentException(builder) = <<"exception", builder.catch_depth_ - 1>>
       /\ CurrentStackTrace(builder) = <<"stack_trace", builder.catch_depth_ - 1>>
       /\ objs[builder.catch_block_].exception_var_ = CurrentException(builder)
       /\ objs[builder.catch_block_].stack_trace_var_ = CurrentStackTrace(builder)
  /\ \A i \in LiveOfKind("catch") :
       /\ objs[i].exception_var_ = <<"exception", CatchesAround(i)>>
       /\ objs[i].stack_trace_var_ = <<"stack_trace", CatchesAround(i)>>
       /\ \A j \in LiveOfKind("catch") :
            i # j => /\ objs[i].exception_var_ # objs[j].exception_var_
                     /\ objs[i].stack_trace_var_ # objs[j].stack_trace_var_

\* A catch clause has been entered inside another one.
C23_Witness ==
  /\ rlast.op = "construct"
  /\ rlast.kind = "catch"
  /\ builder.catch_depth_ = 2
  /\ objs[builder.catch_block_].outer_ # NULL

\* C24: the join node materialized as the destination of a switch case or of
\* a breakable region carries the try index that was current when the region
\* was constructed, also when the jump is issued from inside a nested
\* exception-protected region.
C24_JoinTryIndex ==
  /\ \A i \in LiveOfKind("switch") :
       \A case_num \in DOMAIN objs[i].destinations_ :
         joins[objs[i].destinations_[case_num]] = TryIndexAround(i)
  /\ \A i \in LiveOfKind("breakable") :
       objs[i].destination_ # NULL => joins[objs[i].destination_] = TryIndexAround(i)
  /\ rlast.op \in {"DestinationDirect", "BreakDestination"} =>
       joins[rlast.result] = TryIndexAround(rlast.block)

\* A break has just materialized the destination of a breakable region from
\* inside an exception-protected region nested in it.
C24_Witness ==
  /\ rlast.op = "BreakDestination"
  /\ rlast.cached = NULL
  /\ Enclosing(objs, "try_catch", Len(objs) + 1) > rlast.block
  /\ joins[rlast.result] # CurrentTryIndex(builder, objs)

\* A jump has just materialized the destination of a switch case from inside
\* an exception-protected region nested in the switch region.
C24_WitnessSwitch ==
  /\ rlast.op = "DestinationDirect"
  /\ rlast.cached = NULL
  /\ Enclosing(objs, "try_catch", Len(objs) + 1) > rlast.block
  /\ joins[rlast.result] # CurrentTryIndex(builder, objs)

\* What a caller sees of a destination request: the join node and the two
\* out-parameters.
Seen(d) == <<d.ensured.result, d.outer_finally, d.context_depth>>

\* C25: for every live switch region B and every relative case number k,
\* B.Destination(B.depth + k) and B.DestinationDirect(k) return the same join
\* node and report the same finally region and context depth, and leave the
\* same state, whichever of the two is called first.
C25_DestinationsAgree ==
  /\ \A B \in LiveOfKind("switch") :
       \A k \in 0 .. objs[B].case_count_ :
         LET d1 == Destination(builder, objs, joins, B, objs[B].depth_ + k)
             d2 == DestinationDirect(builder, objs, joins, B, k)
             d12 == DestinationDirect(d1.ensured.b, d1.ensured.os, d1.ensured.joins,
                                      B, k)
             d21 == Destination(d2.ensured.b, d2.ensured.os, d2.ensured.joins,
                                B, objs[B].depth_ + k)
         IN /\ d1 = d2
            /\ Seen(d12) = Seen(d1)
            /\ Seen(d21) = Seen(d2)
            /\ d12.ensured = d1.ensured
            /\ d21.ensured = d2.ensured
  /\ (rlast.op = "Destination" /\ rlast.arg >= objs[rlast.this].depth_) =>
       LET d == DestinationDirect(builder, objs, joins, rlast.this,
                                  rlast.arg - objs[rlast.this].depth_)
       IN /\ d.ensured.result = rlast.result
          /\ rlast.out => /\ d.outer_finally = rlast.outer_finally
                          /\ d.context_depth = rlast.context_depth
  /\ rlast.op = "DestinationDirect" =>
       LET d == Destination(builder, objs, joins, rlast.this,
                            objs[rlast.this].depth_ + rlast.arg)
       IN /\ d.ensured.result = rlast.result
          /\ rlast.out => /\ d.outer_finally = rlast.outer_finally
                          /\ d.context_depth = rlast.context_depth

\* Destination(depth + k) has just materialized case k of a switch region
\* nested in another switch region and in a finally region.
C25_Witness ==
  /\ rlast.op = "Destination"
  /\ rlast.out
  /\ rlast.cached = NULL
  /\ rlast.arg >= objs[rlast.this].depth_
  /\ objs[rlast.this].depth_ > 0
  /\ rlast.arg - objs[rlast.this].depth_ < objs[rlast.this].case_count_
  /\ rlast.outer_finally # NULL

\* DestinationDirect(k) has just materialized case k of a switch region nested
\* in another switch region and in a finally region.
C25_WitnessDirect ==
  /\ rlast.op = "DestinationDirect"
  /\ rlast.out
  /\ rlast.cached = NULL
  /\ objs[rlast.this].depth_ > 0
  /\ rlast.outer_finally # NULL

\* C26: the constructor and the destructor of a tracker of one kind leave the
\* chain heads of the other four kinds and the builder's context depth as
\* they were.
C26_StacksIndependent ==
  rlast.op \in {"construct", "destroy"} =>
    /\ \A kind \in Kinds \ {rlast.kind} :
         Tops(builder)[kind] = Tops(rlast.pre)[kind]
    /\ builder.context_depth_ = rlast.pre.context_depth_

\* A tracker has just been constructed at context depth 1 while trackers of
\* two other kinds are live.
C26_Witness ==
  /\ rlast.op = "construct"
  /\ builder.context_depth_ > 0
  /\ Cardinality({kind \in Kinds \ {rlast.kind} : Tops(builder)[kind] # NULL}) >= 2

\* A tracker has just been destroyed at context depth 1 while trackers of two
\* other kinds are live.
C26_WitnessDestroy ==
  /\ rlast.op = "destroy"
  /\ builder.context_depth_ > 0
  /\ Cardinality({kind \in Kinds \ {rlast.kind} : Tops(builder)[kind] # NULL}) >= 2

\* The live breakable regions with index label_index.
Labeled(label_index) ==
  {i \in LiveOfKind("breakable") : objs[i].index_ = label_index}

\* C27: a live breakable region's index is the number of live breakable
\* regions enclosing it, 0 for the outermost and the outer region's index
\* plus one otherwise, so the indices along the chain are pairwise distinct
\* and every label index from 0 to the innermost region's index resolves to
\* exactly one live region, whichever region BreakDestination is invoked on.
C27_BreakableIndices ==
  /\ \A i \in LiveOfKind("breakable") :
       /\ objs[i].index_ = Cardinality({j \in LiveOfKind("breakable") : j < i})
       /\ objs[i].index_ = IF objs[i].outer_ = NULL THEN 0
                           ELSE objs[objs[i].outer_].index_ + 1
       /\ \A j \in LiveOfKind("breakable") :
            i # j => objs[i].index_ # objs[j].index_
  /\ builder.breakable_block_ # NULL =>
       \A label_index \in 0 .. objs[builder.breakable_block_].index_ :
         /\ Cardinality(Labeled(label_index)) = 1
         /\ FindBreakableBlock(objs, builder.breakable_block_, label_index)
              \in Labeled(label_index)
  /\ rlast.op = "BreakDestination" =>
       /\ Labeled(rlast.arg) = {rlast.block}
       /\ rlast.result = objs[rlast.block].destination_

\* BreakDestination has just been invoked on an outer breakable region for
\* the label of another one.
C27_Witness ==
  /\ rlast.op = "BreakDestination"
  /\ rlast.this # builder.breakable_block_
  /\ rlast.block # rlast.this
  /\ Cardinality(LiveOfKind("breakable")) >= 2

\* C28: for every target index t >= 0 passed to Destination on a live switch
\* chain, the outward walk stops at a non-null region and the relative case
\* number t - depth handed to EnsureDestination is at least 0 and less than
\* the region's case count; no join node is materialized under a case number
\* outside a region's declared case count.
C28_CaseInRange ==
  /\ rlast.op = "Destination" =>
       /\ rlast.block # NULL
       /\ 0 <= rlast.case_num
       /\ rlast.case_num < objs[rlast.block].case_count_
  /\ \A i \in LiveOfKind("switch") :
       \A case_num \in DOMAIN objs[i].destinations_ :
         0 <= case_num /\ case_num < objs[i].case_count_

\* What holds of the walk for every target index t >= 0: it stops at a live
\* region whose depth is at most t, so the case number is not negative.
C28_WalkStops ==
  rlast.op = "Destination" =>
    /\ rlast.block \in LiveOfKind("switch")
    /\ objs[rlast.block].depth_ <= rlast.arg
    /\ rlast.case_num = rlast.arg - objs[rlast.block].depth_
    /\ 0 <= rlast.case_num

\* The finally regions on the chain from block outward, and NULL, its end.
RECURSIVE FinallyChain(_, _)
FinallyChain(os, block) ==
  IF block = NULL THEN {NULL}
  ELSE {block} \cup FinallyChain(os, os[block].outer_)

\* C29: the finally region recorded by each live switch or breakable region
\* is null or a live finally region on the chain from the builder's current
\* finally region outward, and that chain is strictly descending, so the walk
\* from the current finally region to the recorded one ends at it, after as
\* many steps as there are live finally regions inside it.
C29_OuterFinallyLive ==
  /\ \A j \in LiveOfKind("try_finally") :
       /\ objs[j].outer_ < j
       /\ objs[j].outer_ = NULL \/ objs[j].outer_ \in LiveOfKind("try_finally")
  /\ \A i \in LiveOfKind("switch") \cup LiveOfKind("breakable") :
       LET f == objs[i].outer_finally_ IN
         /\ f = NULL \/ f \in LiveOfKind("try_finally")
         /\ f < i
         /\ f \in FinallyChain(objs, builder.try_finally_block_)
         /\ Len(TranslateFinallyFinalizers(objs, builder.try_finally_block_, f))
              = Cardinality({j \in LiveOfKind("try_finally") : j > f})
  /\ (rlast.op \in {"BreakDestination", "Destination"} /\ rlast.out) =>
       rlast.outer_finally \in FinallyChain(objs, builder.try_finally_block_)

\* A break has just left a finally region for a breakable region that lies
\* in another finally region.
C29_Witness ==
  /\ rlast.op = "BreakDestination"
  /\ rlast.outer_finally # NULL
  /\ builder.try_finally_block_ # rlast.outer_finally
  /\ objs[builder.try_finally_block_].outer_ = rlast.outer_finally

\* A jump to a switch case has just left a finally region for a switch region
\* that lies in another finally region.
C29_WitnessSwitch ==
  /\ rlast.op = "Destination"
  /\ rlast.out
  /\ rlast.outer_finally # NULL
  /\ builder.try_finally_block_ # rlast.outer_finally

SpecFragment == Init /\ [][FragNext]_vars

Next == FragNext \/ RegionNext
Spec == Init /\ [][Next]_vars
====
